---- MODULE Spec2Model ----
(***************************************************************************)
(* A model of the sallyport block protocol: the host dispatcher            *)
(* (host/syscall.rs), the guest stage/commit/collect pipeline              *)
(* (guest/alloc/syscall.rs, guest/syscall/*.rs) and the item codec         *)
(* (item/mod.rs).                                                          *)
(*                                                                         *)
(* Machine words.  TLC's integers are 32 bits wide, so a usize is modelled *)
(* at WordBits bits: every usize value is a number in 0 .. WordMod-1 and   *)
(* usize arithmetic is taken modulo WordMod, as the hardware takes it      *)
(* modulo 2^64.  A word still occupies size_of::<usize>() = 8 bytes of the *)
(* block; its upper bytes are the sign extension of the modelled bits, so  *)
(* that -ENOSYS as usize is the bytes da ff ff ff ff ff ff ff.             *)
(***************************************************************************)
EXTENDS Integers, Sequences, FiniteSets, TLC

VARIABLES
    \* ---- host dispatcher on one adversarial item (SpecHost) ----
    syscall,          \* the item::Syscall payload: [num, argv, ret]
    data,             \* the item's data tail, a sequence of bytes
    overflow_checks,  \* the build: TRUE = arithmetic overflow panics, FALSE = it wraps
    result,           \* what execute_syscall returned (NotRun before)
    hpc,              \* "ready" | "done"
    advanced,         \* 0, or the argv slot that was advanced by one byte
    \* ---- one sally of the guest Handler and the host behind it (Spec) ----
    block,            \* the shared block, a sequence of bytes
    calls,            \* the batch passed to Handler::execute
    pc,               \* "stage" | "commit" | "sally" | "host" | "collect" | "done" | "failed"
    idx,              \* the element of the batch the current phase is at (1-based)
    alloc,            \* the block allocator
    staged,           \* the StagedSyscall of each staged element
    committed,        \* the CommittedSyscall of each committed element
    collected,        \* the value collected for each collected element
    user,             \* the caller's memory: one buffer per element of the batch
    sallies,          \* how often Platform::sally was called
    host_runs,        \* FALSE: the host returns without executing (the tests under miri)
    host_pos,         \* byte offset of the next item header the host reads
    kernel,           \* the host OS: open descriptors, file position, bytes written
    klog,             \* the kernel invocations so far, in order
    \* ---- one call through an entry of the Handler (SpecEntry) ----
    rng,              \* the outcomes of the successive _rdrand64_step calls (TRUE = ready)
    raw               \* what the raw entry handler.syscall returned (NoRaw before)

hostvars == <<syscall, data, overflow_checks, result, hpc, advanced>>

guestvars == <<block, calls, pc, idx, alloc, staged, committed, collected, user, sallies>>

sallyvars == <<host_runs, host_pos, kernel, klog>>

entryvars == <<rng, raw>>

vars == <<hostvars, guestvars, sallyvars, entryvars>>

---------------------------------------------------------------------------
\* Bounds of the model.

\* Width of the modelled machine word, in bits.
WordBits == 16
\* Longest adversarial data tail, in words.
MaxDataWords == 18

WordMod == 2 ^ WordBits

---------------------------------------------------------------------------
\* libc.rs

EFAULT == 14
ENOSYS == 38

SYS_accept == 43
SYS_accept4 == 288
SYS_bind == 49
SYS_clock_gettime == 228
SYS_close == 3
SYS_connect == 42
SYS_dup == 32
SYS_dup2 == 33
SYS_dup3 == 292
SYS_epoll_create1 == 291
SYS_epoll_ctl == 233
SYS_epoll_pwait == 281
SYS_epoll_wait == 232
SYS_eventfd2 == 290
SYS_exit == 60
SYS_exit_group == 231
SYS_fcntl == 72
SYS_fstat == 5
SYS_getpid == 39
SYS_getsockname == 51
SYS_listen == 50
SYS_read == 0
SYS_recvfrom == 45
SYS_setsockopt == 54
SYS_socket == 41
SYS_sync == 162
SYS_write == 1

\* crate::NULL: the offset that stands for "no pointer".
NULL == 0

\* size_of::<T>() of the types the dispatcher dereferences (x86_64, #[repr(C)]).
SizeOf(T) ==
    CASE T = "u8" -> 1
      [] T = "socklen_t" -> 4
      [] T = "usize" -> 8
      [] T = "timespec" -> 16
      [] T = "epoll_event" -> 16
      [] T = "sigset_t" -> 128
      [] T = "sockaddr_storage" -> 128
      [] T = "sockaddr" -> 16

\* align_of::<T>() of the same types.
AlignOf(T) ==
    CASE T = "u8" -> 1
      [] T = "socklen_t" -> 4
      [] T = "usize" -> 8
      [] T = "timespec" -> 8
      [] T = "epoll_event" -> 8
      [] T = "sigset_t" -> 8
      [] T = "sockaddr_storage" -> 8
      [] T = "sockaddr" -> 2

\* -errno as usize
NegErrno(e) == WordMod - e

---------------------------------------------------------------------------
\* host/syscall.rs

\* null_mut(): a kernel argument that is a pointer is modelled as its byte
\* offset from the start of the data tail, the null pointer as NullPtr.
NullPtr == -1

\* The result of a kernel invocation that did not happen.
NoCall == [num |-> -1, argv |-> <<>>, mem |-> {}]

NotRun == [tag |-> "NotRun", errno |-> 0, kcall |-> NoCall]

Err(e) == [tag |-> "Err", errno |-> e, kcall |-> NoCall]

\* A debug build's overflow panic.
Panic == [tag |-> "Panic", errno |-> 0, kcall |-> NoCall]

\* Syscall { num, argv, ret }.execute(): the kernel is entered with argv; mem is
\* the set of (pointer, element count, element size) ranges among the arguments.
Execute(num, argv, mem) ==
    [tag |-> "Ok", errno |-> 0, kcall |-> [num |-> num, argv |-> argv, mem |-> mem]]

Range(ptr, count, T) == [off |-> ptr, count |-> count, el |-> SizeOf(T)]

\* ptr.align_offset(align): the data tail starts at a word-aligned address (it
\* follows the nine words of the Syscall payload in a [usize] block).
align_offset(ptr, align) == (align - (ptr % align)) % align

\* `*addrlen as usize`: the socklen_t the guest wrote at that offset.
read_socklen(d, ptr) ==
    (d[ptr + 1] + 256 * d[ptr + 2] + 65536 * d[ptr + 3]
        + ((2 ^ 24) % WordMod) * d[ptr + 4]) % WordMod

deref(d, offset, len, T) ==
    LET product == len * SizeOf(T)
        size == product % WordMod
    IN  IF product >= WordMod /\ overflow_checks THEN Panic
        ELSE IF size > Len(d) \/ Len(d) - size < offset THEN Err(EFAULT)
        ELSE [tag |-> "Ok", errno |-> 0, ptr |-> offset, size |-> size]

\* deref_sockaddr_output without the alignment check of the address pointer.
deref_sockaddr_output_addr_unaligned(d, addr_offset, addrlen_offset) ==
    LET addrlen == deref(d, addrlen_offset, 1, "socklen_t")
    IN  IF addrlen.tag # "Ok" THEN addrlen
        ELSE IF align_offset(addrlen.ptr, AlignOf("socklen_t")) # 0 THEN Err(EFAULT)
        ELSE LET n == read_socklen(d, addrlen.ptr)
                 addr == deref(d, addr_offset, n, "u8")
             IN  IF addr.tag # "Ok" THEN addr
                 ELSE [tag |-> "Ok", errno |-> 0, addr |-> addr.ptr,
                       addrlen |-> addrlen.ptr,
                       mem |-> {Range(addr.ptr, n, "u8"),
                                Range(addrlen.ptr, 1, "socklen_t")}]

deref_sockaddr_output(d, addr_offset, addrlen_offset) ==
    LET addrlen == deref(d, addrlen_offset, 1, "socklen_t")
    IN  IF addrlen.tag # "Ok" THEN addrlen
        ELSE IF align_offset(addrlen.ptr, AlignOf("socklen_t")) # 0 THEN Err(EFAULT)
        ELSE LET n == read_socklen(d, addrlen.ptr)
                 addr == deref(d, addr_offset, n, "u8")
             IN  IF addr.tag # "Ok" THEN addr
                 ELSE IF align_offset(addr.ptr, AlignOf("sockaddr_storage")) # 0
                      THEN Err(EFAULT)
                 ELSE [tag |-> "Ok", errno |-> 0, addr |-> addr.ptr,
                       addrlen |-> addrlen.ptr,
                       mem |-> {Range(addr.ptr, n, "u8"),
                                Range(addrlen.ptr, 1, "socklen_t")}]

\* A NULL address offset that nulls the address pointer only and still
\* dereferences the addrlen offset.
sockaddr_output_null_addr_only(d, addr_offset, addrlen_offset) ==
    IF addr_offset = NULL
    THEN LET addrlen == deref(d, addrlen_offset, 1, "socklen_t")
         IN  IF addrlen.tag # "Ok" THEN addrlen
             ELSE [tag |-> "Ok", errno |-> 0, addr |-> NullPtr, addrlen |-> addrlen.ptr,
                   mem |-> {Range(addrlen.ptr, 1, "socklen_t")}]
    ELSE deref_sockaddr_output(d, addr_offset, addrlen_offset)

\* (null_mut(), null_mut()) when the address offset is NULL.
sockaddr_output_or_null(d, addr_offset, addrlen_offset) ==
    IF addr_offset = NULL
    THEN [tag |-> "Ok", errno |-> 0, addr |-> NullPtr, addrlen |-> NullPtr, mem |-> {}]
    ELSE deref_sockaddr_output(d, addr_offset, addrlen_offset)

\* deref_aligned without its alignment check.
deref_aligned_unchecked(d, offset, len, T) == deref(d, offset, len, T)

\* One typed pointer: deref::<T>(data, offset, len) and its alignment check.
deref_aligned(d, offset, len, T) ==
    LET p == deref(d, offset, len, T)
    IN  IF p.tag # "Ok" THEN p
        ELSE IF align_offset(p.ptr, AlignOf(T)) # 0 THEN Err(EFAULT)
        ELSE p

execute_accept(num, a, d) ==
    LET sa == sockaddr_output_or_null(d, a[2], a[3])
    IN  IF sa.tag # "Ok" THEN sa
        ELSE IF num = SYS_accept4
             THEN Execute(num, <<a[1], sa.addr, sa.addrlen, a[4]>>, sa.mem)
             ELSE Execute(num, <<a[1], sa.addr, sa.addrlen>>, sa.mem)

execute_getsockname(a, d) ==
    LET sa == deref_sockaddr_output(d, a[2], a[3])
    IN  IF sa.tag # "Ok" THEN sa
        ELSE Execute(SYS_getsockname, <<a[1], sa.addr, sa.addrlen>>, sa.mem)

\* bind, connect, read, write: [fd, buf_offset, count]
execute_buffer(num, a, d) ==
    LET buf == deref(d, a[2], a[3], "u8")
    IN  IF buf.tag # "Ok" THEN buf
        ELSE Execute(num, <<a[1], buf.ptr, a[3]>>, {Range(buf.ptr, a[3], "u8")})

execute_clock_gettime(a, d) ==
    LET tp == deref_aligned(d, a[2], 1, "timespec")
    IN  IF tp.tag # "Ok" THEN tp
        ELSE Execute(SYS_clock_gettime, <<a[1], tp.ptr>>, {Range(tp.ptr, 1, "timespec")})

execute_epoll_ctl(a, d) ==
    LET event == deref_aligned(d, a[4], 1, "epoll_event")
    IN  IF event.tag # "Ok" THEN event
        ELSE Execute(SYS_epoll_ctl, <<a[1], a[2], a[3], event.ptr>>,
                     {Range(event.ptr, 1, "epoll_event")})

execute_epoll_pwait(a, d) ==
    LET events == deref_aligned(d, a[2], a[3], "epoll_event")
    IN  IF events.tag # "Ok" THEN events
        ELSE LET sigmask == deref_aligned(d, a[5], 1, "sigset_t")
             IN  IF sigmask.tag # "Ok" THEN sigmask
                 ELSE Execute(SYS_epoll_pwait,
                              <<a[1], events.ptr, a[3], a[4], sigmask.ptr>>,
                              {Range(events.ptr, a[3], "epoll_event"),
                               Range(sigmask.ptr, 1, "sigset_t")})

execute_epoll_wait(a, d) ==
    LET events == deref_aligned(d, a[2], a[3], "epoll_event")
    IN  IF events.tag # "Ok" THEN events
        ELSE Execute(SYS_epoll_wait, <<a[1], events.ptr, a[3], a[4]>>,
                     {Range(events.ptr, a[3], "epoll_event")})

\* A dispatcher that hands the buffer to the kernel before it has checked
\* the address pair.
execute_recvfrom_kernel_before_addr(a, d) ==
    LET buf == deref(d, a[2], a[3], "u8")
    IN  IF buf.tag # "Ok" THEN buf
        ELSE LET sa == sockaddr_output_or_null(d, a[5], a[6])
             IN  IF sa.tag # "Ok"
                 THEN [sa EXCEPT !.kcall =
                          Execute(SYS_recvfrom,
                                  <<a[1], buf.ptr, a[3], a[4], NullPtr, NullPtr>>,
                                  {Range(buf.ptr, a[3], "u8")}).kcall]
                 ELSE Execute(SYS_recvfrom,
                              <<a[1], buf.ptr, a[3], a[4], sa.addr, sa.addrlen>>,
                              {Range(buf.ptr, a[3], "u8")} \cup sa.mem)

execute_recvfrom(a, d) ==
    LET buf == deref(d, a[2], a[3], "u8")
    IN  IF buf.tag # "Ok" THEN buf
        ELSE LET sa == sockaddr_output_or_null(d, a[5], a[6])
             IN  IF sa.tag # "Ok" THEN sa
                 ELSE Execute(SYS_recvfrom,
                              <<a[1], buf.ptr, a[3], a[4], sa.addr, sa.addrlen>>,
                              {Range(buf.ptr, a[3], "u8")} \cup sa.mem)

\* A setsockopt arm that nulls the pointer of a NULL optval offset and keeps
\* the guest's optlen.
execute_setsockopt_null_keeps_optlen(a, d) ==
    IF a[4] = NULL
    THEN Execute(SYS_setsockopt, <<a[1], a[2], a[3], NullPtr, a[5]>>, {})
    ELSE LET optval == deref(d, a[4], a[5], "u8")
         IN  IF optval.tag # "Ok" THEN optval
             ELSE IF align_offset(optval.ptr, AlignOf("usize")) # 0 THEN Err(EFAULT)
             ELSE Execute(SYS_setsockopt, <<a[1], a[2], a[3], optval.ptr, a[5]>>,
                          {Range(optval.ptr, a[5], "u8")})

execute_setsockopt(a, d) ==
    IF a[4] = NULL
    THEN Execute(SYS_setsockopt, <<a[1], a[2], a[3], NullPtr, 0>>, {})
    ELSE LET optval == deref(d, a[4], a[5], "u8")
         IN  IF optval.tag # "Ok" THEN optval
             ELSE IF align_offset(optval.ptr, AlignOf("usize")) # 0 THEN Err(EFAULT)
             ELSE Execute(SYS_setsockopt, <<a[1], a[2], a[3], optval.ptr, a[5]>>,
                          {Range(optval.ptr, a[5], "u8")})

\* The numbers whose arguments are all scalars, with the number of argv words
\* the dispatcher passes on.
\* The table of the scalar calls with the arm of sync left out.
ScalarArgs_without_sync(num) ==
    CASE num = SYS_close -> 1
      [] num = SYS_dup -> 1
      [] num = SYS_dup2 -> 2
      [] num = SYS_dup3 -> 3
      [] num = SYS_epoll_create1 -> 1
      [] num = SYS_eventfd2 -> 2
      [] num = SYS_exit -> 1
      [] num = SYS_exit_group -> 1
      [] num = SYS_fcntl -> 3
      [] num = SYS_listen -> 2
      [] num = SYS_socket -> 3
      [] OTHER -> -1

ScalarArgs(num) ==
    CASE num = SYS_close -> 1
      [] num = SYS_dup -> 1
      [] num = SYS_dup2 -> 2
      [] num = SYS_dup3 -> 3
      [] num = SYS_epoll_create1 -> 1
      [] num = SYS_eventfd2 -> 2
      [] num = SYS_exit -> 1
      [] num = SYS_exit_group -> 1
      [] num = SYS_fcntl -> 3
      [] num = SYS_listen -> 2
      [] num = SYS_socket -> 3
      [] num = SYS_sync -> 0
      [] OTHER -> -1

execute_syscall(sc, d) ==
    LET num == sc.num
        a == sc.argv
    IN  CASE num \in {SYS_accept, SYS_accept4} -> execute_accept(num, a, d)
          [] num \in {SYS_bind, SYS_connect, SYS_read, SYS_write} -> execute_buffer(num, a, d)
          [] num = SYS_clock_gettime -> execute_clock_gettime(a, d)
          [] num = SYS_epoll_ctl -> execute_epoll_ctl(a, d)
          [] num = SYS_epoll_pwait -> execute_epoll_pwait(a, d)
          [] num = SYS_epoll_wait -> execute_epoll_wait(a, d)
          [] num = SYS_getsockname -> execute_getsockname(a, d)
          [] num = SYS_recvfrom -> execute_recvfrom(a, d)
          [] num = SYS_setsockopt -> execute_setsockopt(a, d)
          [] ScalarArgs(num) >= 0 -> Execute(num, SubSeq(a, 1, ScalarArgs(num)), {})
          [] OTHER -> Err(ENOSYS)

---------------------------------------------------------------------------
\* The block: a [usize] seen as bytes (native endian, x86_64: little endian).

\* Words of the shared block.
BlockWords == 36

BlockBytes == 8 * BlockWords

\* usize::to_ne_bytes: the modelled bits, sign-extended to eight bytes.
to_ne_bytes(w) ==
    LET s == IF w >= WordMod \div 2 THEN w - WordMod ELSE w
    IN  [k \in 1..8 |-> IF k <= 3 THEN (s \div (256 ^ (k - 1))) % 256
                        ELSE IF s < 0 THEN 255 ELSE 0]

\* usize::from_ne_bytes, reduced to the modelled bits.
from_ne_bytes(b) == (b[1] + 256 * b[2] + 65536 * b[3]) % WordMod

write_bytes(blk, off, bytes) ==
    [i \in 1..Len(blk) |->
        IF off < i /\ i <= off + Len(bytes) THEN bytes[i - off] ELSE blk[i]]

read_bytes(blk, off, n) == SubSeq(blk, off + 1, off + n)

read_word(blk, off) == from_ne_bytes(read_bytes(blk, off, 8))

RECURSIVE words_to_bytes(_)
words_to_bytes(ws) ==
    IF ws = <<>> THEN <<>> ELSE to_ne_bytes(Head(ws)) \o words_to_bytes(Tail(ws))

write_words(blk, off, ws) == write_bytes(blk, off, words_to_bytes(ws))

read_words(blk, off, n) == [k \in 1..n |-> read_word(blk, off + 8 * (k - 1))]

---------------------------------------------------------------------------
\* item/mod.rs

KindEnd == 0
KindSyscall == 1
KindGdbcall == 2

EINVAL == 22
ENOMEM == 12
EBADF == 9

\* size_of::<item::Header>(): { size: usize, kind: Kind }
HeaderSize == 2 * SizeOf("usize")

\* size_of::<item::Syscall>(): { num: usize, argv: [usize; 6], ret: [usize; 2] }
SyscallSize == 9 * SizeOf("usize")

\* Kind::try_from that knows End only.
Kind_try_from_end_only(kind) ==
    IF kind = KindEnd
    THEN [tag |-> "Ok", errno |-> 0, kind |-> kind]
    ELSE [tag |-> "Err", errno |-> EINVAL, kind |-> kind]

\* Kind::try_from decoding the word of End as Syscall.
Kind_try_from_end_as_syscall(kind) ==
    IF kind \in {KindEnd, KindSyscall, KindGdbcall}
    THEN [tag |-> "Ok", errno |-> 0, kind |-> IF kind = KindEnd THEN KindSyscall ELSE kind]
    ELSE [tag |-> "Err", errno |-> EINVAL, kind |-> kind]

\* Kind::try_from decoding the word of Gdbcall as Syscall.
Kind_try_from_gdbcall_as_syscall(kind) ==
    IF kind \in {KindEnd, KindSyscall, KindGdbcall}
    THEN [tag |-> "Ok", errno |-> 0, kind |-> IF kind = KindGdbcall THEN KindSyscall ELSE kind]
    ELSE [tag |-> "Err", errno |-> EINVAL, kind |-> kind]

\* Kind::try_from(usize)
Kind_try_from(kind) ==
    IF kind \in {KindEnd, KindSyscall, KindGdbcall}
    THEN [tag |-> "Ok", errno |-> 0, kind |-> kind]
    ELSE [tag |-> "Err", errno |-> EINVAL, kind |-> kind]

\* Header::try_from taking a word that is no kind for Gdbcall.
Header_try_from_any_kind(header) ==
    LET kind == Kind_try_from(header[2])
    IN  IF kind.tag # "Ok" THEN [tag |-> "Ok", errno |-> 0, size |-> header[1], kind |-> KindGdbcall]
        ELSE [tag |-> "Ok", errno |-> 0, size |-> header[1], kind |-> kind.kind]

\* Header::try_from([size, kind])
Header_try_from(header) ==
    LET kind == Kind_try_from(header[2])
    IN  IF kind.tag # "Ok" THEN [tag |-> "Err", errno |-> kind.errno, size |-> 0, kind |-> 0]
        ELSE [tag |-> "Ok", errno |-> 0, size |-> header[1], kind |-> kind.kind]

---------------------------------------------------------------------------
\* guest/alloc: the block allocator.  An allocator hands out the bytes from
\* base + offset up to base + cap; a reference keeps the absolute place of its
\* bytes (abs) and its offset within the allocator that made it (offset).

align_up(n, align) == ((n + align - 1) \div align) * align

\* Allocator::allocate_input / allocate_output / allocate_inout (by layout)
allocate(al, size, align) ==
    LET start == align_up(al.offset, align)
    IN  IF start + size > al.cap
        THEN [tag |-> "Err", errno |-> ENOMEM, al |-> al]
        ELSE [tag |-> "Ok", errno |-> 0,
              ref |-> [abs |-> al.base + start, offset |-> start, size |-> size],
              al |-> [al EXCEPT !.offset = start + size]]

\* The sub-allocator Allocator::section runs its closure against.
section_alloc(al) == [base |-> al.base + al.offset, offset |-> 0, cap |-> al.cap - al.offset]

\* Handler::execute reserves the End header behind everything it stages.
NewAlloc == [base |-> 0, offset |-> 0, cap |-> BlockBytes - HeaderSize]

---------------------------------------------------------------------------
\* guest/syscall: the calls of the catalogue the model stages.

\* The descriptor the host process has open, and one it has not.
OpenFd == 3
BadFd == 7

\* Argv<N> into [usize; 6]
Argv(a) == [k \in 1..6 |-> IF k <= Len(a) THEN a[k] ELSE 0]

NoStaged == [kind |-> "unit"]

StageErr(e) == [tag |-> "Err", errno |-> e]

\* PassthroughSyscall -> Syscall::stage: Ok((T::stage(self), ()))
passthrough_stage(call, al) ==
    [tag |-> "Ok", errno |-> 0, argv |-> Argv(call.args), staged |-> NoStaged, al |-> al]

\* ClockGettime::stage taking the timespec behind the allocator's offset even
\* when the allocator refuses it.
clock_gettime_stage_ignoring_enomem(call, al) ==
    LET tp == allocate([al EXCEPT !.cap = al.offset + 2 * SizeOf("timespec")],
                       SizeOf("timespec"), AlignOf("timespec"))
    IN  [tag |-> "Ok", errno |-> 0,
         argv |-> Argv(<<call.args[1], tp.ref.offset>>),
         staged |-> [kind |-> "Output", ref |-> tp.ref],
         al |-> [tp.al EXCEPT !.cap = al.cap]]

\* ClockGettime::stage putting tp.offset() + 1 into argv.
clock_gettime_stage_off_by_one(call, al) ==
    LET tp == allocate(al, SizeOf("timespec"), AlignOf("timespec"))
    IN  IF tp.tag # "Ok" THEN StageErr(tp.errno)
        ELSE [tag |-> "Ok", errno |-> 0,
              argv |-> Argv(<<call.args[1], tp.ref.offset + 1>>),
              staged |-> [kind |-> "Output", ref |-> tp.ref],
              al |-> tp.al]

\* ClockGettime::stage
clock_gettime_stage(call, al) ==
    LET tp == allocate(al, SizeOf("timespec"), AlignOf("timespec"))
    IN  IF tp.tag # "Ok" THEN StageErr(tp.errno)
        ELSE [tag |-> "Ok", errno |-> 0,
              argv |-> Argv(<<call.args[1], tp.ref.offset>>),
              staged |-> [kind |-> "Output", ref |-> tp.ref],
              al |-> tp.al]

\* Read::stage: an Out region of count bytes; Argv = [fd, buf_offset, count]
read_stage(call, al) ==
    LET buf == allocate(al, call.count, 1)
    IN  IF buf.tag # "Ok" THEN StageErr(buf.errno)
        ELSE [tag |-> "Ok", errno |-> 0,
              argv |-> Argv(<<call.args[1], buf.ref.offset, call.count>>),
              staged |-> [kind |-> "OutputSlice", ref |-> buf.ref],
              al |-> buf.al]

\* Write::stage: an In region holding the caller's bytes; Argv = [fd, buf_offset, count]
write_stage(call, al) ==
    LET buf == allocate(al, call.count, 1)
    IN  IF buf.tag # "Ok" THEN StageErr(buf.errno)
        ELSE [tag |-> "Ok", errno |-> 0,
              argv |-> Argv(<<call.args[1], buf.ref.offset, call.count>>),
              staged |-> [kind |-> "InputSlice", ref |-> buf.ref, val |-> call.buf],
              al |-> buf.al]

\* Recvfrom::stage: an InOut socklen_t initialised to the capacity of the
\* caller's address buffer, an Out region of that capacity aligned as the host
\* asks, an Out region of len bytes for the data;
\* Argv = [fd, buf_offset, len, flags, src_addr_offset, addrlen_offset]
recvfrom_stage(call, al) ==
    LET addrlen == allocate(al, SizeOf("socklen_t"), AlignOf("socklen_t"))
    IN  IF addrlen.tag # "Ok" THEN StageErr(addrlen.errno) ELSE
    LET addr == allocate(addrlen.al, Len(call.buf), AlignOf("sockaddr_storage"))
    IN  IF addr.tag # "Ok" THEN StageErr(addr.errno) ELSE
    LET buf == allocate(addr.al, call.count, 1)
    IN  IF buf.tag # "Ok" THEN StageErr(buf.errno)
        ELSE [tag |-> "Ok", errno |-> 0,
              argv |-> Argv(<<call.args[1], buf.ref.offset, call.count, call.args[2],
                              addr.ref.offset, addrlen.ref.offset>>),
              staged |-> [kind |-> "Recvfrom", ref |-> buf.ref, addr |-> addr.ref,
                          addrlen |-> addrlen.ref, capacity |-> Len(call.buf)],
              al |-> buf.al]

\* <T as Syscall>::stage
call_stage(call, al) ==
    CASE call.name = "ClockGettime" -> clock_gettime_stage(call, al)
      [] call.name = "Recvfrom" -> recvfrom_stage(call, al)
      [] call.name = "Read" -> read_stage(call, al)
      [] call.name = "Write" -> write_stage(call, al)
      [] OTHER -> passthrough_stage(call, al)

---------------------------------------------------------------------------
\* guest/alloc/syscall.rs

\* The tail of Stage::stage padding by a whole word instead of the missing bytes.
stage_pad_whole_word(call, h, n, a, r, st, al) ==
    LET staged_size == st.al.offset
        reminder == staged_size % AlignOf("usize")
        pad_size == AlignOf("usize")
        after == [al EXCEPT !.offset = @ + staged_size]
        pad == IF staged_size > 0 /\ reminder > 0
               THEN allocate(after, pad_size, 1)
               ELSE [tag |-> "Ok", errno |-> 0, al |-> after]
    IN  IF pad.tag # "Ok" THEN StageErr(pad.errno)
        ELSE [tag |-> "Ok", errno |-> 0,
              item |-> [name |-> call.name, num |-> call.num,
                        header_ref |-> h.ref, num_ref |-> n.ref,
                        argv |-> [ref |-> a.ref, val |-> st.argv],
                        ret_ref |-> r.ref,
                        staged |-> st.staged,
                        staged_size |-> IF staged_size > 0 /\ reminder > 0
                                        THEN staged_size + pad_size ELSE staged_size],
              al |-> pad.al]

\* The tail of Stage::stage allocating the padding without adding it to staged_size.
stage_pad_uncounted(call, h, n, a, r, st, al) ==
    LET staged_size == st.al.offset
        reminder == staged_size % AlignOf("usize")
        pad_size == AlignOf("usize") - reminder
        after == [al EXCEPT !.offset = @ + staged_size]
        pad == IF staged_size > 0 /\ reminder > 0
               THEN allocate(after, pad_size, 1)
               ELSE [tag |-> "Ok", errno |-> 0, al |-> after]
    IN  IF pad.tag # "Ok" THEN StageErr(pad.errno)
        ELSE [tag |-> "Ok", errno |-> 0,
              item |-> [name |-> call.name, num |-> call.num,
                        header_ref |-> h.ref, num_ref |-> n.ref,
                        argv |-> [ref |-> a.ref, val |-> st.argv],
                        ret_ref |-> r.ref,
                        staged |-> st.staged,
                        staged_size |-> staged_size],
              al |-> pad.al]

\* The tail of Stage::stage: pad the section to the machine word.
stage_pad(call, h, n, a, r, st, al) ==
    LET staged_size == st.al.offset
        reminder == staged_size % AlignOf("usize")
        pad_size == AlignOf("usize") - reminder
        after == [al EXCEPT !.offset = @ + staged_size]
        pad == IF staged_size > 0 /\ reminder > 0
               THEN allocate(after, pad_size, 1)
               ELSE [tag |-> "Ok", errno |-> 0, al |-> after]
    IN  IF pad.tag # "Ok" THEN StageErr(pad.errno)
        ELSE [tag |-> "Ok", errno |-> 0,
              item |-> [name |-> call.name, num |-> call.num,
                        header_ref |-> h.ref, num_ref |-> n.ref,
                        argv |-> [ref |-> a.ref, val |-> st.argv],
                        ret_ref |-> r.ref,
                        staged |-> st.staged,
                        staged_size |-> IF staged_size > 0 /\ reminder > 0
                                        THEN staged_size + pad_size ELSE staged_size],
              al |-> pad.al]

\* Stage::stage reserving the two ret words before the six argv words.
stage_ret_before_argv(call, al) ==
    LET h == allocate(al, HeaderSize, 8)
    IN  IF h.tag # "Ok" THEN StageErr(h.errno) ELSE
    LET n == allocate(h.al, SizeOf("usize"), AlignOf("usize"))
    IN  IF n.tag # "Ok" THEN StageErr(n.errno) ELSE
    LET r == allocate(n.al, 2 * SizeOf("usize"), AlignOf("usize"))
    IN  IF r.tag # "Ok" THEN StageErr(r.errno) ELSE
    LET a == allocate(r.al, 6 * SizeOf("usize"), AlignOf("usize"))
    IN  IF a.tag # "Ok" THEN StageErr(a.errno) ELSE
    LET st == call_stage(call, section_alloc(a.al))
    IN  IF st.tag # "Ok" THEN StageErr(st.errno)
        ELSE stage_pad(call, h, n, a, r, st, a.al)

\* <T: Syscall as Stage>::stage
stage(call, al) ==
    LET h == allocate(al, HeaderSize, 8)
    IN  IF h.tag # "Ok" THEN StageErr(h.errno) ELSE
    LET n == allocate(h.al, SizeOf("usize"), AlignOf("usize"))
    IN  IF n.tag # "Ok" THEN StageErr(n.errno) ELSE
    LET a == allocate(n.al, 6 * SizeOf("usize"), AlignOf("usize"))
    IN  IF a.tag # "Ok" THEN StageErr(a.errno) ELSE
    LET r == allocate(a.al, 2 * SizeOf("usize"), AlignOf("usize"))
    IN  IF r.tag # "Ok" THEN StageErr(r.errno) ELSE
    LET st == call_stage(call, section_alloc(r.al))
    IN  IF st.tag # "Ok" THEN StageErr(st.errno)
        ELSE stage_pad(call, h, n, a, r, st, r.al)

\* socklen_t::to_ne_bytes
socklen_bytes(n) == <<n % 256, (n \div 256) % 256, 0, 0>>

\* <T::Staged as Commit>::commit: every In and InOut reference writes its bytes.
staged_commit(st, blk) ==
    CASE st.kind = "InputSlice" -> write_bytes(blk, st.ref.abs, st.val)
      [] st.kind = "Recvfrom" -> write_bytes(blk, st.addrlen.abs, socklen_bytes(st.capacity))
      [] OTHER -> blk

\* StagedSyscall::commit that leaves the argv words as they were.
commit_without_argv(item, blk) ==
    LET b1 == write_words(blk, item.header_ref.abs,
                          <<SyscallSize + item.staged_size, KindSyscall>>)
        b2 == write_words(b1, item.num_ref.abs, <<item.num>>)
        b4 == write_words(b2, item.ret_ref.abs, <<NegErrno(ENOSYS), 0>>)
    IN  staged_commit(item.staged, b4)

\* StagedSyscall::commit that leaves the return words as they were.
commit_without_sentinel(item, blk) ==
    LET b1 == write_words(blk, item.header_ref.abs,
                          <<SyscallSize + item.staged_size, KindSyscall>>)
        b2 == write_words(b1, item.num_ref.abs, <<item.num>>)
        b3 == write_words(b2, item.argv.ref.abs, item.argv.val)
    IN  staged_commit(item.staged, b3)

\* StagedSyscall::commit whose header counts the Syscall payload only.
commit_bare_header(item, blk) ==
    LET b1 == write_words(blk, item.header_ref.abs, <<SyscallSize, KindSyscall>>)
        b2 == write_words(b1, item.num_ref.abs, <<item.num>>)
        b3 == write_words(b2, item.argv.ref.abs, item.argv.val)
        b4 == write_words(b3, item.ret_ref.abs, <<NegErrno(ENOSYS), 0>>)
    IN  staged_commit(item.staged, b4)

\* StagedSyscall::commit that writes the first return word only.
commit_first_ret_only(item, blk) ==
    LET b1 == write_words(blk, item.header_ref.abs,
                          <<SyscallSize + item.staged_size, KindSyscall>>)
        b2 == write_words(b1, item.num_ref.abs, <<item.num>>)
        b3 == write_words(b2, item.argv.ref.abs, item.argv.val)
        b4 == write_words(b3, item.ret_ref.abs, <<NegErrno(ENOSYS)>>)
    IN  staged_commit(item.staged, b4)

\* StagedSyscall::commit that records the number of sallies made so far.
commit_counting_sallies(item, blk) ==
    LET b1 == write_words(blk, item.header_ref.abs,
                          <<SyscallSize + item.staged_size, KindSyscall>>)
        b2 == write_words(b1, item.num_ref.abs, <<item.num>>)
        b3 == write_words(b2, item.argv.ref.abs, item.argv.val)
        b4 == write_words(b3, item.ret_ref.abs, <<NegErrno(ENOSYS), sallies>>)
    IN  staged_commit(item.staged, b4)

\* StagedSyscall::commit: the block after the commit.
commit(item, blk) ==
    LET b1 == write_words(blk, item.header_ref.abs,
                          <<SyscallSize + item.staged_size, KindSyscall>>)
        b2 == write_words(b1, item.num_ref.abs, <<item.num>>)
        b3 == write_words(b2, item.argv.ref.abs, item.argv.val)
        b4 == write_words(b3, item.ret_ref.abs, <<NegErrno(ENOSYS), 0>>)
    IN  staged_commit(item.staged, b4)

\* The CommittedSyscall that StagedSyscall::commit returns.
committed_of(item) ==
    [name |-> item.name, ret_ref |-> item.ret_ref, committed |-> item.staged]


\* syscall::Result<T::Ret> from [usize; 2], into Result<T::Ret>: the Linux
\* convention, the last 4095 words are negated errnos.
ret_into_result(ret) ==
    IF ret[1] > WordMod - 4096
    THEN [tag |-> "Err", val |-> WordMod - ret[1]]
    ELSE [tag |-> "Ok", val |-> ret[1]]

\* The calls whose Ret is ().
UnitRet == {"Close", "Dup", "Dup2", "Dup3", "Exit", "ExitGroup", "Sync", "ClockGettime"}

\* Result<T::Ret> of the call: a () keeps nothing of the return word.
typed_ret(name, res) ==
    IF res.tag = "Ok" /\ name \in UnitRet THEN [tag |-> "Ok", val |-> 0] ELSE res

\* ClockGettime::collect copying the timespec whatever the return.
clock_gettime_collect_always(c, ret, blk, tp) == read_bytes(blk, c.ref.abs, c.ref.size)

\* ClockGettime::collect: what the caller's timespec holds afterwards.
clock_gettime_collect(c, ret, blk, tp) ==
    IF ret.tag = "Ok" THEN read_bytes(blk, c.ref.abs, c.ref.size) ELSE tp

\* Read::collect: the value (None when the host reports more bytes than asked for).
read_collect_value(c, ret) ==
    IF ret.tag = "Ok" /\ ret.val > c.ref.size THEN [tag |-> "None", val |-> 0] ELSE ret

\* Read::collect honouring a length of one byte more than the region.
read_collect_buf_one_past(c, ret, blk, buf) ==
    IF ret.tag = "Ok" /\ ret.val <= c.ref.size + 1
    THEN read_bytes(blk, c.ref.abs, ret.val) \o SubSeq(buf, ret.val + 1, Len(buf))
    ELSE buf

\* Read::collect: what the caller's buffer holds afterwards.
read_collect_buf(c, ret, blk, buf) ==
    IF ret.tag = "Ok" /\ ret.val <= c.ref.size
    THEN read_bytes(blk, c.ref.abs, ret.val) \o SubSeq(buf, ret.val + 1, Len(buf))
    ELSE buf

\* Recvfrom::collect copying the whole capacity whatever addrlen came back.
recvfrom_collect_user_whole_capacity(c, ret, blk, u) ==
    IF ret.tag = "Ok" /\ ret.val <= c.ref.size
    THEN [buf |-> read_collect_buf(c, ret, blk, u.buf),
          src |-> read_bytes(blk, c.addr.abs, c.capacity),
          addrlen |-> read_socklen(blk, c.addrlen.abs)]
    ELSE u

\* Recvfrom::collect: the caller's data buffer, address buffer and addrlen
\* afterwards.  The address is copied up to the smaller of the caller's capacity
\* and the addrlen read back, and the caller's addrlen takes the value read back.
recvfrom_collect_user(c, ret, blk, u) ==
    IF ret.tag = "Ok" /\ ret.val <= c.ref.size
    THEN LET back == read_socklen(blk, c.addrlen.abs)
             n == IF back < c.capacity THEN back ELSE c.capacity
         IN  [buf |-> read_collect_buf(c, ret, blk, u.buf),
              src |-> read_bytes(blk, c.addr.abs, n) \o SubSeq(u.src, n + 1, Len(u.src)),
              addrlen |-> back]
    ELSE u

\* CommittedSyscall::collect: the Collected value of the element.
collect_value(com, blk) ==
    LET ret == read_words(blk, com.ret_ref.abs, 2)
        res == typed_ret(com.name, ret_into_result(ret))
    IN  IF com.name \in {"Read", "Recvfrom"}
        THEN read_collect_value(com.committed, res)
        ELSE res

\* CommittedSyscall::collect: the caller's buffer of the element afterwards.
collect_user(com, blk, buf) ==
    LET ret == read_words(blk, com.ret_ref.abs, 2)
        res == typed_ret(com.name, ret_into_result(ret))
    IN  CASE com.name = "ClockGettime" -> clock_gettime_collect(com.committed, res, blk, buf)
          [] com.name = "Read" -> read_collect_buf(com.committed, res, blk, buf)
          [] com.name = "Recvfrom" -> recvfrom_collect_user(com.committed, res, blk, buf)
          [] OTHER -> buf

---------------------------------------------------------------------------
\* The host OS behind the `syscall` instruction: one open file.

\* The bytes of the open file ("read").
FileContent == <<114, 101, 97, 100>>

\* The time CLOCK_REALTIME (0) shows: tv_sec, tv_nsec.
ClockNow == <<5, 6>>

KernelInit == [open |-> {OpenFd}, pos |-> 0, out |-> <<>>]

Min(a, b) == IF a < b THEN a ELSE b

kernel_read(a, d, k) ==
    IF a[1] \notin k.open THEN [ret |-> NegErrno(EBADF), data |-> d, kernel |-> k]
    ELSE LET n == Min(a[3], Len(FileContent) - k.pos)
         IN  [ret |-> n,
              data |-> write_bytes(d, a[2], SubSeq(FileContent, k.pos + 1, k.pos + n)),
              kernel |-> [k EXCEPT !.pos = @ + n]]

kernel_write(a, d, k) ==
    IF a[1] \notin k.open THEN [ret |-> NegErrno(EBADF), data |-> d, kernel |-> k]
    ELSE [ret |-> a[3], data |-> d,
          kernel |-> [k EXCEPT !.out = @ \o read_bytes(d, a[2], a[3])]]

kernel_close(a, d, k) ==
    IF a[1] \notin k.open THEN [ret |-> NegErrno(EBADF), data |-> d, kernel |-> k]
    ELSE [ret |-> 0, data |-> d, kernel |-> [k EXCEPT !.open = @ \ {a[1]}]]

kernel_clock_gettime(a, d, k) ==
    IF a[1] # 0 THEN [ret |-> NegErrno(EINVAL), data |-> d, kernel |-> k]
    ELSE [ret |-> 0, data |-> write_bytes(d, a[2], words_to_bytes(ClockNow)), kernel |-> k]

\* The lowest descriptor above the standard ones that is not open.
lowest_fd(k) == CHOOSE n \in 3..(4 + Cardinality(k.open)) :
                    n \notin k.open /\ \A m \in 3..(n - 1) : m \in k.open

\* dup: the lowest free descriptor.
kernel_dup(a, d, k) ==
    IF a[1] \notin k.open THEN [ret |-> NegErrno(EBADF), data |-> d, kernel |-> k]
    ELSE [ret |-> lowest_fd(k), data |-> d,
          kernel |-> [k EXCEPT !.open = @ \cup {lowest_fd(k)}]]

\* dup2 and dup3: the descriptor asked for.
kernel_dup2(a, d, k) ==
    IF a[1] \notin k.open THEN [ret |-> NegErrno(EBADF), data |-> d, kernel |-> k]
    ELSE [ret |-> a[2], data |-> d, kernel |-> [k EXCEPT !.open = @ \cup {a[2]}]]

\* eventfd2: a new descriptor.
kernel_eventfd2(a, d, k) ==
    [ret |-> lowest_fd(k), data |-> d, kernel |-> [k EXCEPT !.open = @ \cup {lowest_fd(k)}]]

\* The kernel's return register, the data tail and the OS state after a call.
kernel_call(kcall, d, k) ==
    CASE kcall.num = SYS_dup -> kernel_dup(kcall.argv, d, k)
      [] kcall.num \in {SYS_dup2, SYS_dup3} -> kernel_dup2(kcall.argv, d, k)
      [] kcall.num = SYS_eventfd2 -> kernel_eventfd2(kcall.argv, d, k)
      [] kcall.num = SYS_read -> kernel_read(kcall.argv, d, k)
      [] kcall.num = SYS_write -> kernel_write(kcall.argv, d, k)
      [] kcall.num = SYS_close -> kernel_close(kcall.argv, d, k)
      [] kcall.num = SYS_clock_gettime -> kernel_clock_gettime(kcall.argv, d, k)
      [] OTHER -> [ret |-> 0, data |-> d, kernel |-> k]

\* exit and exit_group do not return to the dispatcher.
kernel_exits(kcall) == kcall.num \in {SYS_exit, SYS_exit_group}

---------------------------------------------------------------------------
\* item/block.rs and host/mod.rs: the host walks the items of the block.

\* The item whose header is at byte offset pos: the header, the Syscall
\* payload and the data tail, or EINVAL.
item_at(blk, pos) ==
    IF pos + HeaderSize > Len(blk) THEN [tag |-> "Err", errno |-> EINVAL] ELSE
    LET header == Header_try_from(read_words(blk, pos, 2))
    IN  IF header.tag # "Ok" THEN [tag |-> "Err", errno |-> header.errno]
        ELSE IF header.kind = KindEnd THEN [tag |-> "End", errno |-> 0, size |-> header.size]
        ELSE IF header.size > Len(blk) - pos - HeaderSize \/ header.size < SyscallSize
             THEN [tag |-> "Err", errno |-> EINVAL]
        ELSE [tag |-> "Item", errno |-> 0, kind |-> header.kind, size |-> header.size,
              payload |-> [num |-> read_word(blk, pos + HeaderSize),
                           argv |-> read_words(blk, pos + HeaderSize + 8, 6),
                           ret |-> read_words(blk, pos + HeaderSize + 56, 2)],
              ret_abs |-> pos + HeaderSize + 56,
              data_abs |-> pos + HeaderSize + SyscallSize,
              data |-> read_bytes(blk, pos + HeaderSize + SyscallSize,
                                  header.size - SyscallSize),
              next |-> pos + HeaderSize + header.size]

---------------------------------------------------------------------------
\* guest/syscall/stub.rs: the calls the guest answers itself.

STDIN_FILENO == 0
STDOUT_FILENO == 1
STDERR_FILENO == 2
S_IFIFO == 4096
EBADFD == 77
EAGAIN == 11
GRND_NONBLOCK == 1
GRND_RANDOM == 2
SYS_getrandom == 318

\* Result<T> of the guest: Ok(val) | Err(errno).
GuestOk(v) == [tag |-> "Ok", val |-> v]
GuestErr(e) == [tag |-> "Err", val |-> e]

\* makedev in Fstat::collect; the bit fields are disjoint, so | is +.
makedev(x, y) ==
    (x \div 4096) * 4096 * 65536 * 65536
        + (x % 4096) * 256
        + (y \div 256) * 256 * 4096
        + (y % 256)

\* mem::zeroed::<stat>()
ZeroStat ==
    [st_dev |-> 0, st_ino |-> 0, st_mode |-> 0, st_nlink |-> 0, st_uid |-> 0,
     st_gid |-> 0, st_blksize |-> 0, st_blocks |-> 0, st_rdev |-> 0, st_size |-> 0,
     st_atime |-> 0, st_atime_nsec |-> 0, st_mtime |-> 0, st_mtime_nsec |-> 0,
     st_ctime |-> 0, st_ctime_nsec |-> 0]

\* The record Fstat::collect builds for a standard descriptor.
SyntheticStat(fd) ==
    [ZeroStat EXCEPT
        !.st_dev = makedev(0, IF fd = 0 THEN 25 ELSE 12),
        !.st_ino = 3,
        !.st_mode = S_IFIFO + 384,
        !.st_nlink = 1,
        !.st_uid = 1000,
        !.st_gid = 5,
        !.st_blksize = 4096,
        !.st_blocks = 0,
        !.st_rdev = makedev(136, 0),
        !.st_size = 0,
        !.st_atime = 1579507218,
        !.st_mtime = 1579507218,
        !.st_ctime = 1579507218]

\* Fstat::collect answering for every descriptor that may be open.
Fstat_collect_open_files(fd, statbuf) ==
    IF fd \in {STDIN_FILENO, STDOUT_FILENO, STDERR_FILENO, OpenFd}
    THEN [value |-> GuestOk(0), user |-> SyntheticStat(fd)]
    ELSE [value |-> GuestErr(EBADFD), user |-> statbuf]

\* Fstat::collect: the result and the caller's statbuf afterwards.
Fstat_collect(fd, statbuf) ==
    IF fd \in {STDIN_FILENO, STDOUT_FILENO, STDERR_FILENO}
    THEN [value |-> GuestOk(0), user |-> SyntheticStat(fd)]
    ELSE [value |-> GuestErr(EBADFD), user |-> statbuf]

\* Whether a bit of the flags word is set.
HasFlag(flags, bit) == (flags \div bit) % 2 = 1

\* The bytes of chunk i of a buffer of n bytes (chunks_mut(8)).
ChunkLen(n, i) == IF n - 8 * i < 8 THEN n - 8 * i ELSE 8

\* The caller still waits in the loop of Getrandom::collect.
Spinning == [tag |-> "Spin", val |-> 0]

\* The bytes el.to_ne_bytes() of the word the t-th step of the RNG yields
\* when it is ready: eight bytes, none of them zero, no two steps alike.
rdrand64(t) == [k \in 1..8 |-> (16 * t + k) % 256]

\* A chunk is filled only if it has all of its eight bytes.
getrandom_ready_whole_chunks(buf, i, t) ==
    IF ChunkLen(Len(buf), i) < 8 THEN buf ELSE write_bytes(buf, 8 * i, rdrand64(t))

\* chunk.copy_from_slice(&el.to_ne_bytes()[..chunk.len()]) on chunk i.
getrandom_ready(buf, i, t) ==
    write_bytes(buf, 8 * i, SubSeq(rdrand64(t), 1, ChunkLen(Len(buf), i)))

\* The else branch returning the chunks filled, not their bytes.
getrandom_not_ready_chunk_count(flags, i) ==
    IF HasFlag(flags, GRND_NONBLOCK) THEN GuestErr(EAGAIN)
    ELSE IF HasFlag(flags, GRND_RANDOM) THEN GuestOk(i)
    ELSE Spinning

\* The else branch looking at RANDOM before NONBLOCK.
getrandom_not_ready_random_first(flags, i) ==
    IF HasFlag(flags, GRND_RANDOM) THEN GuestOk(i * 8)
    ELSE IF HasFlag(flags, GRND_NONBLOCK) THEN GuestErr(EAGAIN)
    ELSE Spinning

\* The else branch of the loop, the RNG not being ready while chunk i is
\* filled: NONBLOCK is looked at first, then RANDOM, else the loop goes on.
getrandom_not_ready(flags, i) ==
    IF HasFlag(flags, GRND_NONBLOCK) THEN GuestErr(EAGAIN)
    ELSE IF HasFlag(flags, GRND_RANDOM) THEN GuestOk(i * 8)
    ELSE Spinning

\* The mask taking the bit above RANDOM for a flag it knows.
unknown_flags_above_four(flags) == (flags \div 8) * 8

\* self.flags & !(GRND_NONBLOCK | GRND_RANDOM)
unknown_flags(flags) == (flags \div 4) * 4

RECURSIVE getrandom_chunks(_, _, _, _, _)
\* The loop of Getrandom::collect from chunk i on, at the t-th step of the RNG.
getrandom_chunks(buf, flags, i, outcomes, t) ==
    IF 8 * i >= Len(buf) THEN [value |-> GuestOk(Len(buf)), user |-> buf]
    ELSE IF t > Len(outcomes) THEN [value |-> Spinning, user |-> buf]
    ELSE IF outcomes[t]
         THEN getrandom_chunks(getrandom_ready(buf, i, t), flags, i + 1, outcomes, t + 1)
    ELSE IF getrandom_not_ready(flags, i) # Spinning
         THEN [value |-> getrandom_not_ready(flags, i), user |-> buf]
    ELSE getrandom_chunks(buf, flags, i, outcomes, t + 1)

\* Getrandom::collect: the result and the caller's buffer afterwards.
Getrandom_collect(buf, flags, outcomes) ==
    IF unknown_flags(flags) # 0
    THEN [value |-> GuestErr(EINVAL), user |-> buf]
    ELSE getrandom_chunks(buf, flags, 0, outcomes, 1)

---------------------------------------------------------------------------
\* guest/handler.rs: Handler::execute on a batch, and the sally behind it.

\* Calls per batch.
MaxBatch == 3

Call(name, num, args, count, buf) ==
    [name |-> name, num |-> num, args |-> args, count |-> count, buf |-> buf]

\* The calls of a batch: passthrough calls, a read, a write, a clock_gettime,
\* and Getpid, a PassthroughSyscall whose NUM the dispatcher does not route.
CallSet ==
    {Call("Sync", SYS_sync, <<>>, 0, <<>>),
     Call("Close", SYS_close, <<OpenFd>>, 0, <<>>),
     Call("Close", SYS_close, <<BadFd>>, 0, <<>>),
     Call("Exit", SYS_exit, <<0>>, 0, <<>>),
     Call("ClockGettime", SYS_clock_gettime, <<0>>, 0, <<>>),
     Call("Read", SYS_read, <<OpenFd>>, 5, <<>>),
     Call("Getpid", SYS_getpid, <<>>, 0, <<>>),
     Call("Write", SYS_write, <<OpenFd>>, 2, <<119, 114>>)}

Batches == UNION {[1..n -> CallSet] : n \in 1..MaxBatch}

Zeros(n) == [i \in 1..n |-> 0]

\* The caller's buffer of a call before the call.
UserInit(call) ==
    CASE call.name = "Read" -> Zeros(call.count)
      [] call.name = "ClockGettime" -> Zeros(SizeOf("timespec"))
      [] call.name = "Getrandom" -> Zeros(call.count)
      [] call.name = "Fstat" -> ZeroStat
      [] call.name = "Recvfrom" ->
            [buf |-> Zeros(call.count), src |-> call.buf, addrlen |-> Len(call.buf)]
      [] OTHER -> <<>>

\* The block as the tests hand it to the Handler: every usize is 0xff.
BlockInit == words_to_bytes([w \in 1..BlockWords |-> 255])

NoRaw == [tag |-> "NotRun", val |-> <<>>]

EntryIdle ==
    /\ rng = <<>>
    /\ raw = NoRaw

HostIdle ==
    /\ syscall = [num |-> SYS_sync, argv |-> Argv(<<>>), ret |-> <<0, 0>>]
    /\ data = <<>>
    /\ result = NotRun
    /\ hpc = "idle"
    /\ advanced = 0

GuestIdle ==
    /\ block = <<>>
    /\ calls = <<>>
    /\ pc = "idle"
    /\ idx = 0
    /\ alloc = NewAlloc
    /\ staged = <<>>
    /\ committed = <<>>
    /\ collected = <<>>
    /\ user = <<>>
    /\ sallies = 0
    /\ host_runs = FALSE
    /\ host_pos = 0
    /\ kernel = KernelInit
    /\ klog = <<>>

Init ==
    /\ HostIdle
    /\ EntryIdle
    /\ overflow_checks \in BOOLEAN
    /\ block = BlockInit
    /\ calls \in Batches
    /\ pc = "stage"
    /\ idx = 1
    /\ alloc = NewAlloc
    /\ staged = <<>>
    /\ committed = <<>>
    /\ collected = <<>>
    /\ user = [i \in DOMAIN calls |-> UserInit(calls[i])]
    /\ sallies = 0
    /\ host_runs \in BOOLEAN
    /\ host_pos = 0
    /\ kernel = KernelInit
    /\ klog = <<>>

\* call.stage(alloc) of the element idx; an ENOMEM ends Handler::execute.
Stage ==
    /\ pc = "stage"
    /\ LET st == stage(calls[idx], alloc)
       IN  IF st.tag # "Ok"
           THEN /\ pc' = "failed"
                /\ UNCHANGED <<alloc, staged, idx>>
           ELSE /\ staged' = Append(staged, st.item)
                /\ alloc' = st.al
                /\ IF idx = Len(calls)
                   THEN pc' = "commit" /\ idx' = 1
                   ELSE pc' = "stage" /\ idx' = idx + 1
    /\ UNCHANGED <<block, calls, committed, collected, user, sallies>>
    /\ UNCHANGED <<hostvars, sallyvars, entryvars>>

\* A Handler that goes on to the sally after the commit of the first element.
Commit_first_only ==
    /\ pc = "commit"
    /\ block' = commit(staged[idx], block)
    /\ committed' = Append(committed, committed_of(staged[idx]))
    /\ pc' = "end"
    /\ idx' = 1
    /\ UNCHANGED <<calls, alloc, staged, collected, user, sallies>>
    /\ UNCHANGED <<hostvars, sallyvars, entryvars>>

\* call.commit(&alloc) of the element idx.
Commit ==
    /\ pc = "commit"
    /\ block' = commit(staged[idx], block)
    /\ committed' = Append(committed, committed_of(staged[idx]))
    /\ IF idx = Len(calls)
       THEN pc' = "end" /\ idx' = 1
       ELSE pc' = "commit" /\ idx' = idx + 1
    /\ UNCHANGED <<calls, alloc, staged, collected, user, sallies>>
    /\ UNCHANGED <<hostvars, sallyvars, entryvars>>

\* The End header behind the last item: its size is what is left of the block.
WriteEnd ==
    /\ pc = "end"
    /\ block' = write_words(block, alloc.offset,
                            <<BlockBytes - alloc.offset - HeaderSize, KindEnd>>)
    /\ pc' = "sally"
    /\ UNCHANGED <<calls, idx, alloc, staged, committed, collected, user, sallies>>
    /\ UNCHANGED <<hostvars, sallyvars, entryvars>>

\* A platform whose sally returns to the guest while the host has yet to
\* look at the block.
Sally_not_waiting ==
    /\ pc = "sally"
    /\ sallies' = sallies + 1
    /\ host_pos' = 0
    /\ pc' = "collect"
    /\ UNCHANGED <<block, calls, idx, alloc, staged, committed, collected, user>>
    /\ UNCHANGED <<hostvars, host_runs, kernel, klog, entryvars>>

\* Platform::sally: the VM exit.
Sally ==
    /\ pc = "sally"
    /\ sallies' = sallies + 1
    /\ host_pos' = 0
    /\ pc' = IF host_runs THEN "host" ELSE "collect"
    /\ UNCHANGED <<block, calls, idx, alloc, staged, committed, collected, user>>
    /\ UNCHANGED <<hostvars, host_runs, kernel, klog, entryvars>>

\* host::execute on the next item of the block.
HostItem ==
    /\ pc = "host"
    /\ LET it == item_at(block, host_pos)
       IN  /\ it.tag = "Item"
           /\ LET r == IF it.kind = KindSyscall
                       THEN execute_syscall(it.payload, it.data)
                       ELSE Err(ENOSYS)
              IN  IF r.tag = "Ok"
                  THEN LET k == kernel_call(r.kcall, it.data, kernel)
                       IN  /\ klog' = Append(klog, r.kcall)
                           /\ IF kernel_exits(r.kcall)
                              THEN /\ pc' = "exited"
                                   /\ UNCHANGED <<block, kernel, host_pos>>
                              ELSE /\ block' = write_bytes(
                                                  write_words(block, it.ret_abs, <<k.ret>>),
                                                  it.data_abs, k.data)
                                   /\ kernel' = k.kernel
                                   /\ host_pos' = it.next
                                   /\ pc' = "host"
                  ELSE /\ pc' = IF r.tag = "Panic" THEN "exited" ELSE "host"
                       /\ host_pos' = it.next
                       /\ UNCHANGED <<block, kernel, klog>>
    /\ UNCHANGED <<calls, idx, alloc, staged, committed, collected, user, sallies>>
    /\ UNCHANGED <<hostvars, host_runs, entryvars>>

\* The host reaches the End item (or a malformed header): the sally returns.
HostEnd ==
    /\ pc = "host"
    /\ item_at(block, host_pos).tag # "Item"
    /\ pc' = "collect"
    /\ UNCHANGED <<block, calls, idx, alloc, staged, committed, collected, user, sallies>>
    /\ UNCHANGED <<hostvars, sallyvars, entryvars>>

\* call.collect(&alloc) of the element idx.
Collect ==
    /\ pc = "collect"
    /\ collected' = Append(collected, collect_value(committed[idx], block))
    /\ user' = [user EXCEPT ![idx] = collect_user(committed[idx], block, @)]
    /\ IF idx = Len(calls)
       THEN pc' = "done" /\ idx' = idx
       ELSE pc' = "collect" /\ idx' = idx + 1
    /\ UNCHANGED <<block, calls, alloc, staged, committed, sallies>>
    /\ UNCHANGED <<hostvars, sallyvars, entryvars>>

Next == Stage \/ Commit \/ WriteEnd \/ Sally \/ HostItem \/ HostEnd \/ Collect

Spec == Init /\ [][Next]_vars


---------------------------------------------------------------------------
\* guest/alloc/syscall.rs: one call staged and committed behind the items
\* already in the block (SpecStage).

\* Where the allocator can stand when a call is staged: at the start of the
\* block or behind earlier items, each a whole number of words and no shorter
\* than its header and Syscall payload.
StageOffsets ==
    {0} \cup {8 * w : w \in ((HeaderSize + SyscallSize) \div 8)..(BlockWords - 2)}

StageInit ==
    /\ HostIdle
    /\ EntryIdle
    /\ overflow_checks = FALSE
    /\ block = BlockInit
    /\ calls \in [1..1 -> CallSet]
    /\ pc = "stage"
    /\ idx = 1
    /\ \E o \in StageOffsets : alloc = [NewAlloc EXCEPT !.offset = o]
    /\ staged = <<>>
    /\ committed = <<>>
    /\ collected = <<>>
    /\ user = [i \in DOMAIN calls |-> UserInit(calls[i])]
    /\ sallies = 0
    /\ host_runs = FALSE
    /\ host_pos = 0
    /\ kernel = KernelInit
    /\ klog = <<>>

StageNext == Stage \/ Commit \/ WriteEnd

SpecStage == StageInit /\ [][StageNext]_vars

---------------------------------------------------------------------------
\* The adversarial guest: any number, any argv, any data tail.

\* The numbers the dispatcher routes.
Routed ==
    {SYS_accept, SYS_accept4, SYS_bind, SYS_clock_gettime, SYS_close, SYS_connect,
     SYS_dup, SYS_dup2, SYS_dup3, SYS_epoll_create1, SYS_epoll_ctl, SYS_epoll_pwait,
     SYS_epoll_wait, SYS_eventfd2, SYS_exit, SYS_exit_group, SYS_fcntl,
     SYS_getsockname, SYS_listen, SYS_read, SYS_recvfrom, SYS_setsockopt,
     SYS_socket, SYS_sync, SYS_write}

\* The argv slots (1..6) of a number that the dispatcher reads as an offset
\* into the data tail.
OffsetSlots(num) ==
    CASE num \in {SYS_accept, SYS_accept4, SYS_getsockname} -> {2, 3}
      [] num \in {SYS_bind, SYS_connect, SYS_read, SYS_write} -> {2}
      [] num = SYS_clock_gettime -> {2}
      [] num = SYS_epoll_ctl -> {4}
      [] num = SYS_epoll_pwait -> {2, 5}
      [] num = SYS_epoll_wait -> {2}
      [] num = SYS_recvfrom -> {2, 5, 6}
      [] num = SYS_setsockopt -> {4}
      [] OTHER -> {}

\* The argv slots that the dispatcher reads as an element count.
LenSlots(num) ==
    CASE num \in {SYS_bind, SYS_connect, SYS_read, SYS_write} -> {3}
      [] num \in {SYS_epoll_pwait, SYS_epoll_wait, SYS_recvfrom} -> {3}
      [] num = SYS_setsockopt -> {5}
      [] OTHER -> {}

\* Offsets and lengths the adversary tries: small aligned and unaligned values
\* and the element counts at which a 16-byte element's byte size leaves the word.
ArgVals == {0, 4, 8, 16, WordMod \div 16, WordMod \div 16 + 1}

ArgChoices(num, i) ==
    IF i \in OffsetSlots(num) \cup LenSlots(num) THEN ArgVals
    ELSE IF i = 1 THEN {3}
    ELSE {0}

\* A data tail of n bytes in which every 4-byte group holds the socklen_t `fill`.
DataOf(n, fill) == [i \in 1..n |-> IF i % 4 = 1 THEN fill ELSE 0]

DataLens == {0, 16, 8 * MaxDataWords}

Fills == {0, 16, 200}

HostInit ==
    /\ \E num \in Routed \cup {SYS_fstat, SYS_getpid} :
        \E a1 \in ArgChoices(num, 1), a2 \in ArgChoices(num, 2), a3 \in ArgChoices(num, 3),
           a4 \in ArgChoices(num, 4), a5 \in ArgChoices(num, 5), a6 \in ArgChoices(num, 6) :
            syscall = [num |-> num, argv |-> <<a1, a2, a3, a4, a5, a6>>,
                       ret |-> <<NegErrno(ENOSYS), 0>>]
    /\ \E n \in DataLens, fill \in Fills : data = DataOf(n, fill)
    /\ overflow_checks \in BOOLEAN
    /\ result = NotRun
    /\ hpc = "ready"
    /\ advanced = 0
    /\ GuestIdle
    /\ EntryIdle

\* host::execute reaches the item: the dispatcher runs on it.
HostExecute ==
    /\ hpc = "ready"
    /\ result' = execute_syscall(syscall, data)
    /\ hpc' = "done"
    /\ UNCHANGED <<syscall, data, overflow_checks, advanced>>
    /\ UNCHANGED <<guestvars, sallyvars, entryvars>>

\* The guest takes an item the host accepted, advances one offset of its argv
\* by one byte and submits it again.
Advance ==
    /\ hpc = "done"
    /\ result.tag = "Ok"
    /\ advanced = 0
    /\ \E slot \in OffsetSlots(syscall.num) :
        /\ syscall' = [syscall EXCEPT !.argv[slot] = (@ + 1) % WordMod]
        /\ advanced' = slot
    /\ hpc' = "ready"
    /\ result' = NotRun
    /\ UNCHANGED <<data, overflow_checks>>
    /\ UNCHANGED <<guestvars, sallyvars, entryvars>>

HostNext == HostExecute \/ Advance

SpecHost == HostInit /\ [][HostNext]_vars


---------------------------------------------------------------------------
\* guest/handler.rs: the typed entries and the raw entry of the Handler.

\* The address of the caller's buffer in a raw request.
BufPtr == 4096

\* Steps of the RNG a call may see.
MaxRng == 3

\* What an entry leaves behind: the result, the caller's buffer, the host OS,
\* the block, the sallies and the kernel invocations.
Outcome(value, buf, k, blk, n, log) ==
    [value |-> value, user |-> buf, kernel |-> k, block |-> blk, sallies |-> n, klog |-> log]

\* F applied to the value of v, v being computed once.
With(v, F(_)) == CHOOSE o \in {F(x) : x \in {v}} : TRUE

\* The sally of Handler::execute and the collect behind it: the host, if it
\* runs, executes the item and writes the return word and the tail.
entry_sally(st, blk, buf, k, hr) ==
    With(item_at(blk, 0), LAMBDA it :
    With(execute_syscall(it.payload, it.data), LAMBDA r :
    With(kernel_call(r.kcall, it.data, k), LAMBDA kr :
    With(IF hr /\ r.tag = "Ok"
         THEN write_bytes(write_words(blk, it.ret_abs, <<kr.ret>>), it.data_abs, kr.data)
         ELSE blk, LAMBDA after :
        Outcome(collect_value(committed_of(st.item), after),
                collect_user(committed_of(st.item), after, buf),
                IF hr /\ r.tag = "Ok" THEN kr.kernel ELSE k, after, 1,
                IF hr /\ r.tag = "Ok" THEN <<r.kcall>> ELSE <<>>)))))

\* Handler::execute(call): stage, commit, End header, one sally, collect.
entry_run(call, buf, k, hr) ==
    With(stage(call, NewAlloc), LAMBDA st :
        IF st.tag # "Ok" THEN Outcome(GuestErr(st.errno), buf, k, BlockInit, 0, <<>>)
        ELSE entry_sally(st,
                         write_words(commit(st.item, BlockInit), st.al.offset,
                                     <<BlockBytes - st.al.offset - HeaderSize, KindEnd>>),
                         buf, k, hr))

\* A typed entry: handler.close(fd), handler.read(fd, buf), handler.fstat(fd, statbuf), ...
\* A stub is collected at once, every other call goes through the pipeline.
typed_entry(call, buf, k, hr, outcomes) ==
    CASE call.name = "Fstat" ->
            LET c == Fstat_collect(call.args[1], buf)
            IN  Outcome(c.value, c.user, k, BlockInit, 0, <<>>)
      [] call.name = "Getrandom" ->
            LET c == Getrandom_collect(buf, call.args[1], outcomes)
            IN  Outcome(c.value, c.user, k, BlockInit, 0, <<>>)
      [] OTHER -> entry_run(call, buf, k, hr)

\* The seven words [num, a0..a5] that ask for the call through the raw entry.
request_of(call) ==
    CASE call.name \in {"Read", "Write"} ->
            <<call.num, call.args[1], BufPtr, call.count, 0, 0, 0>>
      [] call.name \in {"ClockGettime", "Fstat"} ->
            <<call.num, call.args[1], BufPtr, 0, 0, 0, 0>>
      [] call.name = "Getrandom" ->
            <<call.num, BufPtr, call.count, call.args[1], 0, 0, 0>>
      [] OTHER -> <<call.num>> \o Argv(call.args)

NoRoute == Call("None", 0, <<>>, 0, <<>>)

\* handler.syscall: the typed call a request is routed to, mem being the
\* caller's memory at the pointer of the request.
route(req, mem) ==
    CASE req[1] = SYS_close -> Call("Close", SYS_close, <<req[2]>>, 0, <<>>)
      [] req[1] = SYS_sync -> Call("Sync", SYS_sync, <<>>, 0, <<>>)
      [] req[1] = SYS_dup -> Call("Dup", SYS_dup, <<req[2]>>, 0, <<>>)
      [] req[1] = SYS_dup2 -> Call("Dup2", SYS_dup2, <<req[2], req[3]>>, 0, <<>>)
      [] req[1] = SYS_dup3 -> Call("Dup3", SYS_dup3, <<req[2], req[3], req[4]>>, 0, <<>>)
      [] req[1] = SYS_eventfd2 -> Call("Eventfd2", SYS_eventfd2, <<req[2], req[3]>>, 0, <<>>)
      [] req[1] = SYS_read -> Call("Read", SYS_read, <<req[2]>>, req[4], <<>>)
      [] req[1] = SYS_write -> Call("Write", SYS_write, <<req[2]>>, req[4], SubSeq(mem, 1, req[4]))
      [] req[1] = SYS_clock_gettime -> Call("ClockGettime", SYS_clock_gettime, <<req[2]>>, 0, <<>>)
      [] req[1] = SYS_fstat -> Call("Fstat", SYS_fstat, <<req[2]>>, 0, <<>>)
      [] req[1] = SYS_getrandom -> Call("Getrandom", SYS_getrandom, <<req[4]>>, req[3], <<>>)
      [] OTHER -> NoRoute

\* The raw entry's result of a typed result that keeps errors and puts a
\* value into both words.
raw_ret_both_words(res) ==
    IF res.tag = "Ok" THEN GuestOk(<<res.val, res.val>>) ELSE res

\* Result<[usize; 2]> of a typed result: Ok(v) -> Ok([v, 0]), Err(e) -> Err(e).
raw_ret(res) ==
    IF res.tag = "Ok" THEN GuestOk(<<res.val, 0>>) ELSE res

\* handler.syscall([num, a0..a5])
handler_syscall(req, mem, buf, k, hr, outcomes) ==
    LET call == route(req, mem)
    IN  IF call = NoRoute
        THEN Outcome(GuestErr(ENOSYS), buf, k, BlockInit, 0, <<>>)
        ELSE With(typed_entry(call, buf, k, hr, outcomes),
                  LAMBDA t : [t EXCEPT !.value = raw_ret(t.value)])

\* The caller's memory a request points at, before the call.
CallerMem(call) == IF call.name = "Write" THEN call.buf ELSE UserInit(call)

EntryCalls ==
    {Call("Sync", SYS_sync, <<>>, 0, <<>>),
     Call("Close", SYS_close, <<OpenFd>>, 0, <<>>),
     Call("Close", SYS_close, <<BadFd>>, 0, <<>>),
     Call("Dup", SYS_dup, <<OpenFd>>, 0, <<>>),
     Call("Dup", SYS_dup, <<BadFd>>, 0, <<>>),
     Call("Dup2", SYS_dup2, <<OpenFd, 5>>, 0, <<>>),
     Call("Dup3", SYS_dup3, <<OpenFd, 6, 0>>, 0, <<>>),
     Call("Eventfd2", SYS_eventfd2, <<0, 0>>, 0, <<>>),
     Call("ClockGettime", SYS_clock_gettime, <<0>>, 0, <<>>),
     Call("Read", SYS_read, <<OpenFd>>, 5, <<>>),
     Call("Write", SYS_write, <<OpenFd>>, 2, <<119, 114>>)}
    \cup {Call("Fstat", SYS_fstat, <<fd>>, 0, <<>>) :
              fd \in {STDIN_FILENO, STDOUT_FILENO, STDERR_FILENO, OpenFd}}
    \cup {Call("Getrandom", SYS_getrandom, <<flags>>, n, <<>>) :
              flags \in 0..4, n \in {0, 8, 12}}

RngOutcomes == UNION {[1..n -> BOOLEAN] : n \in 0..MaxRng}

EntryInit ==
    /\ HostIdle
    /\ overflow_checks \in BOOLEAN
    /\ block = BlockInit
    /\ calls \in {<<c>> : c \in EntryCalls}
    /\ pc = "entry"
    /\ idx = 1
    /\ alloc = NewAlloc
    /\ staged = <<>>
    /\ committed = <<>>
    /\ collected = <<>>
    /\ user = <<UserInit(calls[1])>>
    /\ sallies = 0
    /\ host_runs \in BOOLEAN
    /\ host_pos = 0
    /\ kernel = KernelInit
    /\ klog = <<>>
    /\ rng \in IF calls[1].name = "Getrandom" THEN RngOutcomes ELSE {<<>>}
    /\ raw = NoRaw

\* The caller uses the typed entry.
TypedEntry ==
    /\ pc = "entry"
    /\ \E t \in {typed_entry(calls[1], user[1], kernel, host_runs, rng)} :
           /\ collected' = <<t.value>>
           /\ user' = <<t.user>>
           /\ kernel' = t.kernel
           /\ block' = t.block
           /\ sallies' = t.sallies
           /\ klog' = t.klog
    /\ pc' = "typed"
    /\ UNCHANGED <<calls, idx, alloc, staged, committed, host_runs, host_pos, rng, raw>>
    /\ UNCHANGED hostvars

\* The caller uses the raw entry.
RawEntry ==
    /\ pc = "entry"
    /\ \E t \in {handler_syscall(request_of(calls[1]), CallerMem(calls[1]),
                                   user[1], kernel, host_runs, rng)} :
           /\ raw' = t.value
           /\ user' = <<t.user>>
           /\ kernel' = t.kernel
           /\ block' = t.block
           /\ sallies' = t.sallies
           /\ klog' = t.klog
    /\ pc' = "raw"
    /\ UNCHANGED <<calls, idx, alloc, staged, committed, collected, host_runs, host_pos, rng>>
    /\ UNCHANGED hostvars

EntryNext == TypedEntry \/ RawEntry

SpecEntry == EntryInit /\ [][EntryNext]_vars

---------------------------------------------------------------------------
\* The collect of one call against a host the guest does not trust: the item
\* is staged and committed, the host answers with any return word and any
\* bytes in the data tail, the guest collects.

AF_INET == 2

\* The peer 127.0.0.1:65534 as the kernel writes it: a sockaddr_in.
PeerAddr == <<AF_INET, 0, 255, 254, 127, 0, 0, 1, 0, 0, 0, 0, 0, 0, 0, 0>>

\* The calls with an Out payload: reads of 0 and 4 bytes, clock_gettime,
\* recvfrom of 8 bytes with an address buffer of a sockaddr and one of 4 bytes.
CollectCalls ==
    {Call("Read", SYS_read, <<OpenFd>>, 0, <<>>),
     Call("Read", SYS_read, <<OpenFd>>, 4, <<>>),
     Call("ClockGettime", SYS_clock_gettime, <<0>>, 0, <<>>),
     Call("Recvfrom", SYS_recvfrom, <<OpenFd, 0>>, 8, Zeros(SizeOf("sockaddr"))),
     Call("Recvfrom", SYS_recvfrom, <<OpenFd, 0>>, 8, Zeros(4))}

\* The return words the host may leave: small lengths, lengths past every
\* buffer, the largest word that is not an errno, and errnos.
HostRets ==
    {0, 1, 4, 5, 8, 9, WordMod \div 2, WordMod - 4096,
     WordMod - 4095, NegErrno(EBADF), NegErrno(1)}

\* The addrlen values the host may write back.
HostAddrLens == {0, 4, SizeOf("sockaddr"), SizeOf("sockaddr") + 12, 200}

\* The bytes the host may leave in a tail of n bytes: byte i is fill + i.
HostTails(n) == {[i \in 1..n |-> (fill + i) % 256] : fill \in {16, 200}}

\* One call staged, committed and closed with the End header.
CollectInit ==
    /\ HostIdle
    /\ EntryIdle
    /\ overflow_checks \in BOOLEAN
    /\ calls \in {<<c>> : c \in CollectCalls}
    /\ LET st == stage(calls[1], NewAlloc)
       IN  /\ st.tag = "Ok"
           /\ alloc = st.al
           /\ staged = <<st.item>>
           /\ committed = <<committed_of(st.item)>>
           /\ block = write_words(commit(st.item, BlockInit), st.al.offset,
                                  <<BlockBytes - st.al.offset - HeaderSize, KindEnd>>)
    /\ pc = "reply"
    /\ idx = 1
    /\ collected = <<>>
    /\ user = <<UserInit(calls[1])>>
    /\ sallies = 1
    /\ host_runs = TRUE
    /\ host_pos = 0
    /\ kernel = KernelInit
    /\ klog = <<>>

\* The host answers: a return word, the tail filled, and for a recvfrom the
\* peer's address (or not) and an addrlen at the offsets of the item's argv.
HostReply ==
    /\ pc = "reply"
    /\ \E ret \in HostRets, tail \in HostTails(Len(item_at(block, 0).data)),
          peer \in BOOLEAN, back \in HostAddrLens :
        LET it == item_at(block, 0)
            b1 == write_words(block, it.ret_abs, <<ret>>)
            b2 == write_bytes(b1, it.data_abs, tail)
            b3 == IF peer
                  THEN write_bytes(b2, it.data_abs + it.payload.argv[5],
                                   SubSeq(PeerAddr, 1, Min(Len(calls[1].buf), Len(PeerAddr))))
                  ELSE b2
        IN  block' = IF calls[1].name = "Recvfrom"
                     THEN write_bytes(b3, it.data_abs + it.payload.argv[6], socklen_bytes(back))
                     ELSE b2
    /\ pc' = "replied"
    /\ UNCHANGED <<calls, idx, alloc, staged, committed, collected, user, sallies>>
    /\ UNCHANGED <<hostvars, sallyvars, entryvars>>

\* The host leaves the item as it was committed.
HostSilent ==
    /\ pc = "reply"
    /\ pc' = "replied"
    /\ UNCHANGED <<block, calls, idx, alloc, staged, committed, collected, user, sallies>>
    /\ UNCHANGED <<hostvars, sallyvars, entryvars>>

\* call.collect(&alloc)
CollectReply ==
    /\ pc = "replied"
    /\ collected' = <<collect_value(committed[1], block)>>
    /\ user' = <<collect_user(committed[1], block, user[1])>>
    /\ pc' = "collected"
    /\ UNCHANGED <<block, calls, idx, alloc, staged, committed, sallies>>
    /\ UNCHANGED <<hostvars, sallyvars, entryvars>>

CollectNext == HostReply \/ HostSilent \/ CollectReply

SpecCollect == CollectInit /\ [][CollectNext]_vars

---------------------------------------------------------------------------
\* host::execute on a block the guest wrote as it pleased: any headers, whole
\* or cut short by the end of the block, anything behind an End.

\* Headers the guest writes into the block.
MaxHeaders == 3

\* The sizes and kind words of those headers: the Syscall payload alone, one
\* with a tail of a word, one larger than any block; the three kinds, and two
\* words that are no kind.
HeaderSizes == {SyscallSize, SyscallSize + 8, 8 * BlockWords}

KindWords == {KindEnd, KindSyscall, KindGdbcall, 3, 255}

\* The lengths of the block in bytes: two items without a tail fill the first.
BlockLens == {2 * (HeaderSize + SyscallSize), 2 * (HeaderSize + SyscallSize) + 16}

\* The words of a sync item as the guest commits it.
SyncPayload == <<SYS_sync, 0, 0, 0, 0, 0, 0, NegErrno(ENOSYS), 0>>

\* The block with the headers hs written from pos on, each followed by a sync
\* payload, as far as the block has room.
RECURSIVE written(_, _, _)
written(hs, pos, blk) ==
    IF hs = <<>> \/ pos + HeaderSize > Len(blk) THEN blk
    ELSE With(write_words(blk, pos, <<Head(hs).size, Head(hs).kind>>), LAMBDA b :
         IF pos + HeaderSize + Head(hs).size > Len(blk) THEN b
         ELSE written(Tail(hs), pos + HeaderSize + Head(hs).size,
                      write_words(b, pos + HeaderSize, SyncPayload)))

BlockHeaders ==
    UNION {[1..n -> [size : HeaderSizes, kind : KindWords]] : n \in 1..MaxHeaders}

\* The sally begins on such a block.
AnyBlockInit ==
    /\ HostIdle
    /\ EntryIdle
    /\ overflow_checks = FALSE
    /\ \E hs \in BlockHeaders, n \in BlockLens : block = written(hs, 0, Zeros(n))
    /\ calls = <<>>
    /\ pc = "host"
    /\ idx = 0
    /\ alloc = NewAlloc
    /\ staged = <<>>
    /\ committed = <<>>
    /\ collected = <<>>
    /\ user = <<>>
    /\ sallies = 1
    /\ host_runs = TRUE
    /\ host_pos = 0
    /\ kernel = KernelInit
    /\ klog = <<>>

BlockNext == HostItem \/ HostEnd

SpecBlock == AnyBlockInit /\ [][BlockNext]_vars

---------------------------------------------------------------------------
\* guest/syscall/stub.rs: the stubs, called one after another, the RNG
\* answering each step of getrandom as it pleases (SpecStub).

\* Calls of stubs in a row.
MaxStubCalls == 2

\* Steps at which the RNG is not ready that a call without flags waits through.
MaxSpin == 2

FAKE_GID == 1000
FAKE_PID == 1000
FAKE_TID == 1
FAKE_UID == 1000

ENOENT == 2

\* "/proc/self/exe".as_bytes()
ProcSelfExe == <<47, 112, 114, 111, 99, 47, 115, 101, 108, 102, 47, 101, 120, 101>>

\* const DEST: &[u8; 6] = b"/init\0"
DEST == <<47, 105, 110, 105, 116, 0>>

\* Readlink::collect looking at the buffer before the path.
Readlink_collect_size_first(pathname, buf) ==
    IF Len(buf) < Len(DEST) THEN [value |-> GuestErr(EINVAL), user |-> buf]
    ELSE IF pathname # ProcSelfExe THEN [value |-> GuestErr(ENOENT), user |-> buf]
    ELSE [value |-> GuestOk(Len(DEST)), user |-> write_bytes(buf, 0, DEST)]

\* Readlink::collect: the result (always Some) and the caller's buffer afterwards.
Readlink_collect(pathname, buf) ==
    IF pathname # ProcSelfExe THEN [value |-> GuestErr(ENOENT), user |-> buf]
    ELSE IF Len(buf) < Len(DEST) THEN [value |-> GuestErr(EINVAL), user |-> buf]
    ELSE [value |-> GuestOk(Len(DEST)), user |-> write_bytes(buf, 0, DEST)]

\* fill writing the string and leaving the bytes behind it.
fill_string_only(buf, with) == [i \in 1..Len(buf) |-> IF i <= Len(with) THEN with[i] ELSE buf[i]]

\* fn fill in Uname::collect: every byte of the field is written, with the
\* byte of the string at its place or with 0 behind the string.
fill(buf, with) == [i \in 1..Len(buf) |-> IF i <= Len(with) THEN with[i] ELSE 0]

\* Uname::collect: the result and the caller's utsname afterwards.
Uname_collect(buf) ==
    [value |-> GuestOk(0),
     user |-> [buf EXCEPT
        !.sysname = fill(@, <<76, 105, 110, 117, 120>>),
        !.nodename = fill(@, <<108, 111, 99, 97, 108, 104, 111, 115, 116, 46,
                               108, 111, 99, 97, 108, 100, 111, 109, 97, 105, 110>>),
        !.release = fill(@, <<53, 46, 54, 46, 48>>),
        !.version = fill(@, <<35, 49>>),
        !.machine = fill(@, <<120, 56, 54, 95, 54, 52>>)]]

\* A call of a stub: its name, its scalar fields and the memory its
\* reference points at before the call.
StubCall(name, args, mem) == [name |-> name, args |-> args, mem |-> mem]

\* Stub::collect of every stub but getrandom: the result and the caller's
\* memory afterwards.  The stubs whose Ret is a plain number return it bare.
Stub_collect(call) ==
    CASE call.name = "Fstat" -> Fstat_collect(call.args[1], call.mem)
      [] call.name = "Readlink" -> Readlink_collect(call.args[1], call.mem)
      [] call.name = "Uname" -> Uname_collect(call.mem)
      [] call.name \in {"Getegid", "Getgid"} -> [value |-> FAKE_GID, user |-> call.mem]
      [] call.name \in {"Geteuid", "Getuid"} -> [value |-> FAKE_UID, user |-> call.mem]
      [] call.name = "Getpid" -> [value |-> FAKE_PID, user |-> call.mem]
      [] call.name = "SetTidAddress" -> [value |-> FAKE_TID, user |-> call.mem]
      [] call.name \in {"RtSigprocmask", "Sigaltstack"} ->
            [value |-> GuestOk(0), user |-> call.mem]

\* Memory the caller has written before: no byte of it is zero, none is a
\* byte of the RNG or of a string a stub writes.
DirtyByte == 170

Dirty(n) == [i \in 1..n |-> DirtyByte]

\* A stat and a utsname with every field filled alike.
StatOf(v) ==
    [st_dev |-> v, st_ino |-> v, st_mode |-> v, st_nlink |-> v, st_uid |-> v,
     st_gid |-> v, st_blksize |-> v, st_blocks |-> v, st_rdev |-> v, st_size |-> v,
     st_atime |-> v, st_atime_nsec |-> v, st_mtime |-> v, st_mtime_nsec |-> v,
     st_ctime |-> v, st_ctime_nsec |-> v]

DirtyStat == StatOf(DirtyByte)

UtsnameOf(b) ==
    [sysname |-> b, nodename |-> b, release |-> b, version |-> b, machine |-> b,
     domainname |-> b]

Utsnames == {UtsnameOf(Zeros(65)), UtsnameOf(Dirty(65))}

Buffers(n) == {Zeros(n), Dirty(n)}

\* Paths readlink is asked for: the one it knows, a prefix of it, one longer
\* by a byte, the target itself and the empty path.
Pathnames ==
    {ProcSelfExe, SubSeq(ProcSelfExe, 1, 13), ProcSelfExe \o <<0>>,
     SubSeq(DEST, 1, 5), <<>>}

GetrandomCalls ==
    {StubCall("Getrandom", <<flags>>, buf) :
        flags \in 0..7, buf \in UNION {Buffers(n) : n \in {0, 8, 12, 24, 64}}}

\* The calls by what they are given: a stat, a utsname, a path and a slice
\* of bytes, numbers and a slice of bytes.
FstatCalls ==
    {StubCall("Fstat", <<fd>>, st) :
        fd \in {STDIN_FILENO, STDOUT_FILENO, STDERR_FILENO, OpenFd, BadFd},
        st \in {ZeroStat, DirtyStat}}

UnameCalls == {StubCall("Uname", <<>>, u) : u \in Utsnames}

ReadlinkCalls ==
    {StubCall("Readlink", <<path>>, buf) :
        path \in Pathnames, buf \in UNION {Buffers(n) : n \in {0, 5, 6, 9}}}

ByteCalls ==
    GetrandomCalls
    \cup {StubCall(name, <<>>, <<>>) :
        name \in {"Getegid", "Geteuid", "Getgid", "Getpid", "Getuid"}}
    \cup {StubCall("SetTidAddress", <<>>, m) : m \in Buffers(4)}
    \cup {StubCall("RtSigprocmask", <<how, 8>>, m) : how \in 0..2, m \in Buffers(8)}
    \cup {StubCall("Sigaltstack", <<>>, m) : m \in Buffers(24)}

\* The Handler before the first stub: the block and the host OS as fresh or
\* as earlier sallies left them, the host serving sallies or not.
StubInit ==
    /\ HostIdle
    /\ overflow_checks = FALSE
    /\ block \in {BlockInit, Zeros(BlockBytes)}
    /\ calls = <<>>
    /\ pc = "idle"
    /\ idx = 0
    /\ alloc = NewAlloc
    /\ staged = <<>>
    /\ committed = <<>>
    /\ collected = <<>>
    /\ user = <<>>
    /\ sallies = 0
    /\ host_runs \in BOOLEAN
    /\ host_pos = 0
    /\ kernel \in {KernelInit, [KernelInit EXCEPT !.pos = 2]}
    /\ klog = <<>>
    /\ rng = <<>>
    /\ raw = NoRaw

\* The chunk the loop of Getrandom::collect is at: one chunk per ready step.
ChunkAt(outcomes) == Len(SelectSeq(outcomes, LAMBDA b : b))

\* The steps so far at which the RNG was not ready.
Spins(outcomes) == Len(outcomes) - ChunkAt(outcomes)

\* A stub that went the way of the other calls: an item header in the block
\* and a sally.
StubLeaves_through_pipeline ==
    /\ block' = write_words(block, 0, <<SyscallSize, KindSyscall>>)
    /\ sallies' = sallies + 1
    /\ UNCHANGED <<alloc, staged, committed, host_runs, host_pos, kernel, klog, raw>>
    /\ UNCHANGED hostvars

\* What no stub touches: the block, the allocator, the host and its OS.
StubLeaves ==
    /\ UNCHANGED <<block, alloc, staged, committed, sallies, host_runs, host_pos, kernel,
                   klog, raw>>
    /\ UNCHANGED hostvars

\* The guest calls one of the stubs S.
Enter(S) ==
    /\ pc = "idle"
    /\ idx < MaxStubCalls
    /\ \E c \in S :
           /\ calls' = <<c>>
           /\ user' = <<c.mem>>
    /\ collected' = <<>>
    /\ rng' = <<>>
    /\ idx' = idx + 1
    /\ pc' = "called"
    /\ StubLeaves

\* The guest calls a stub.
StubEnter ==
    \/ Enter(FstatCalls)
    \/ Enter(UnameCalls)
    \/ Enter(ReadlinkCalls)
    \/ Enter(ByteCalls)

\* The guest calls getrandom.
GetrandomEnter == Enter(GetrandomCalls)

\* Stub::collect of a stub other than getrandom.
StubCollect ==
    /\ pc = "called"
    /\ calls[1].name # "Getrandom"
    /\ \E c \in {Stub_collect(calls[1])} :
           /\ collected' = <<c.value>>
           /\ user' = <<c.user>>
    /\ pc' = "returned"
    /\ UNCHANGED <<calls, idx, rng>>
    /\ StubLeaves

\* Getrandom::collect up to its loop: the flags are looked at, and a buffer
\* without chunks is done at once.
GetrandomFlags ==
    /\ pc = "called"
    /\ calls[1].name = "Getrandom"
    /\ IF unknown_flags(calls[1].args[1]) # 0
       THEN collected' = <<GuestErr(EINVAL)>> /\ pc' = "returned"
       ELSE IF Len(user[1]) = 0
       THEN collected' = <<GuestOk(Len(user[1]))>> /\ pc' = "returned"
       ELSE collected' = collected /\ pc' = "rng"
    /\ UNCHANGED <<calls, idx, rng, user>>
    /\ StubLeaves

\* _rdrand64_step returns 1: the chunk is filled, and behind the last chunk
\* the call returns the length of the buffer.
RngReady ==
    /\ pc = "rng"
    /\ rng' = Append(rng, TRUE)
    /\ user' = <<getrandom_ready(user[1], ChunkAt(rng), Len(rng) + 1)>>
    /\ IF 8 * (ChunkAt(rng) + 1) >= Len(user[1])
       THEN collected' = <<GuestOk(Len(user[1]))>> /\ pc' = "returned"
       ELSE collected' = collected /\ pc' = "rng"
    /\ UNCHANGED <<calls, idx>>
    /\ StubLeaves

\* _rdrand64_step returns 0: the call returns if a flag says so, else it
\* asks the RNG again.
RngNotReady ==
    /\ pc = "rng"
    /\ \E r \in {getrandom_not_ready(calls[1].args[1], ChunkAt(rng))} :
           IF r # Spinning
           THEN collected' = <<r>> /\ pc' = "returned"
           ELSE Spins(rng) < MaxSpin /\ collected' = collected /\ pc' = "rng"
    /\ rng' = Append(rng, FALSE)
    /\ UNCHANGED <<calls, idx, user>>
    /\ StubLeaves

\* The caller has the result and goes on.
StubReturn ==
    /\ pc = "returned"
    /\ pc' = "idle"
    /\ UNCHANGED <<calls, idx, rng, user, collected>>
    /\ StubLeaves

StubNext ==
    \/ StubEnter
    \/ StubCollect
    \/ GetrandomFlags
    \/ RngReady
    \/ RngNotReady
    \/ StubReturn

SpecStub == StubInit /\ [][StubNext]_vars

\* Calls of getrandom in a row.
RngNext ==
    \/ GetrandomEnter
    \/ GetrandomFlags
    \/ RngReady
    \/ RngNotReady
    \/ StubReturn

\* The RNG is ready again and again: a step at which it is ready is taken
\* whenever the loop keeps asking.
SpecRng == StubInit /\ [][RngNext]_vars /\ WF_vars(RngReady)

---------------------------------------------------------------------------
\* boot/vm.rs: SevSecret, its length read from the CBOR header of an
\* untrusted blob (SpecSecret).

SEV_SECRET_MAX_SIZE == 16384

\* Option<T>
Some(v) == [tag |-> "Some", len |-> v]
None == [tag |-> "None", len |-> 0]
LenPanic == [tag |-> "Panic", len |-> 0]
NoLen == [tag |-> "NotRun", len |-> 0]

\* uN::from_be_bytes(bytes) as usize: a usize of the target has 64 bits and
\* is kept as its eight bytes, the most significant first.
from_be_bytes(bytes) ==
    [i \in 1..8 |-> IF i <= 8 - Len(bytes) THEN 0 ELSE bytes[i - (8 - Len(bytes))]]

RECURSIVE usize_add(_, _, _)
\* x + k in usize, k entering at byte i: the sum modulo 2^64 and whether it
\* overflowed.
usize_add(x, k, i) ==
    IF i = 0 THEN [val |-> x, overflow |-> k # 0]
    ELSE usize_add([x EXCEPT ![i] = (x[i] + k) % 256], (x[i] + k) \div 256, i - 1)

\* *len <= SEV_SECRET_MAX_SIZE
le_max_size(x) ==
    /\ \A i \in 1..6 : x[i] = 0
    /\ 256 * x[7] + x[8] <= SEV_SECRET_MAX_SIZE

\* A usize that is at most SEV_SECRET_MAX_SIZE, as a number.
usize_small(x) == 256 * x[7] + x[8]

\* SevSecret::cbor_len: 1 + width of the length field + the length, added in
\* usize; an overflow panics in a build with overflow checks and wraps in one
\* without.
cbor_len(bytes, checks) ==
    LET prefix == bytes[1]
        minor == prefix % 32
    IN  IF prefix \div 32 # 2 THEN None
        ELSE IF minor <= 23 THEN Some(from_be_bytes(<<1 + minor>>))
        ELSE IF minor <= 27
        THEN LET w == 2 ^ (minor - 24)
                 sum == usize_add(from_be_bytes(SubSeq(bytes, 2, 1 + w)), 1 + w, 8)
             IN  IF sum.overflow /\ checks THEN LenPanic ELSE Some(sum.val)
        ELSE None

\* SevSecret::try_len: len.filter(|len| *len <= SEV_SECRET_MAX_SIZE)
try_len(bytes, checks) ==
    With(cbor_len(bytes, checks), LAMBDA len :
        IF len.tag # "Some" THEN len
        ELSE IF le_max_size(len.len) THEN Some(usize_small(len.len))
        ELSE None)

\* SevSecret::try_as_slice: the slice data[..len], kept as its length.
try_as_slice(bytes, checks) == try_len(bytes, checks)

\* The first byte of the blob: every major type with the minors at the
\* edges of the cases of cbor_len.
Prefixes == {32 * major + minor : major \in 0..7, minor \in {0, 23, 24, 25, 26, 27, 28, 31}}

\* Bytes of the length field.
LenBytes == {0, 63, 64, 247, 253, 255}

\* The eight bytes behind the prefix: all of them 0 or 255, or two neighbours
\* at an edge and the others alike.
LenFields ==
    [1..8 -> {0, 255}]
    \cup {[i \in 1..8 |-> IF i = p THEN a ELSE IF i = p + 1 THEN b ELSE c] :
              p \in {1, 3, 7}, a \in LenBytes, b \in LenBytes, c \in {0, 255}}

Secrets == {<<prefix>> \o field : prefix \in Prefixes, field \in LenFields}

\* The blob as the loader injected it, before the shim looks at it.
SecretInit ==
    /\ syscall = [num |-> SYS_sync, argv |-> Argv(<<>>), ret |-> <<0, 0>>]
    /\ data \in Secrets
    /\ overflow_checks \in BOOLEAN
    /\ result = NoLen
    /\ hpc = "ready"
    /\ advanced = 0
    /\ GuestIdle
    /\ EntryIdle

\* secret.try_len()
SecretTryLen ==
    /\ hpc = "ready"
    /\ result' = try_len(data, overflow_checks)
    /\ hpc' = "len"
    /\ UNCHANGED <<syscall, data, overflow_checks, advanced>>
    /\ UNCHANGED <<guestvars, sallyvars, entryvars>>

\* secret.try_as_slice()
SecretTryAsSlice ==
    /\ hpc = "ready"
    /\ result' = try_as_slice(data, overflow_checks)
    /\ hpc' = "slice"
    /\ UNCHANGED <<syscall, data, overflow_checks, advanced>>
    /\ UNCHANGED <<guestvars, sallyvars, entryvars>>

SecretNext == SecretTryLen \/ SecretTryAsSlice

SpecSecret == SecretInit /\ [][SecretNext]_vars

---------------------------------------------------------------------------
\* host/syscall.rs on an item that lies in a block: the dispatcher, the
\* kernel behind it and what they store into the block (SpecServe).

\* The block the guest committed: the item, a sync item behind it and the End
\* header.
ItemBlock(sc, d) ==
    words_to_bytes(<<SyscallSize + Len(d), KindSyscall, sc.num>> \o sc.argv \o sc.ret)
        \o d
        \o words_to_bytes(<<SyscallSize, KindSyscall>> \o SyncPayload \o <<0, KindEnd>>)

\* What the kernel may leave in rax: a count or descriptor, or a negated errno.
KernelRets == {5, NegErrno(EBADF)}

\* A byte the kernel stores.
KernelByte == 238

\* An argument register as the kernel reads a C int from it: the low half of
\* the word, signed.
c_int(v) ==
    LET half == 2 ^ (WordBits \div 2)
        low == v % half
    IN  IF low >= half \div 2 THEN low - half ELSE low

\* The ranges among the arguments of a call that the kernel stores to; the
\* others it only reads. epoll_wait and epoll_pwait take maxevents as an int
\* and store no more events than that.
kernel_outputs(kcall) ==
    IF kcall.num \in {SYS_bind, SYS_connect, SYS_write, SYS_epoll_ctl, SYS_setsockopt}
    THEN {}
    ELSE IF kcall.num \in {SYS_epoll_pwait, SYS_epoll_wait}
    THEN {[r EXCEPT !.count = c_int(kcall.argv[3])] :
             r \in {e \in kcall.mem : e.el = SizeOf("epoll_event")}}
    ELSE kcall.mem

\* Places, counted from the start of the data tail of n bytes, at which the
\* kernel may store a byte: the first and the last byte of a range it was
\* given and the first byte behind the tail if the range goes that far, as
\* far as they lie within the avail bytes the block has from the tail on.
kernel_stores(kcall, n, avail) ==
    UNION {{q \in {r.off, n, r.off + r.count * r.el - 1, avail - 1} :
                r.off <= q /\ q < r.off + r.count * r.el /\ q < avail} :
           r \in kernel_outputs(kcall)}

\* A host that stores the return register one word early, over argv[5].
store_rax_one_word_early(blk, it, rax) == write_words(blk, it.ret_abs - 8, <<rax>>)

\* inlateout("rax") self.num as usize => *self.ret[0]: the only store of the
\* host's own code into the block.
store_rax(blk, it, rax) == write_words(blk, it.ret_abs, <<rax>>)

\* The sally begins on a block with one adversarial item.
ServeInit ==
    /\ \E num \in Routed \cup {SYS_fstat, SYS_getpid} :
        \E a1 \in ArgChoices(num, 1), a2 \in ArgChoices(num, 2), a3 \in ArgChoices(num, 3),
           a4 \in ArgChoices(num, 4), a5 \in ArgChoices(num, 5), a6 \in ArgChoices(num, 6) :
            syscall = [num |-> num, argv |-> <<a1, a2, a3, a4, a5, a6>>,
                       ret |-> <<NegErrno(ENOSYS), 0>>]
    /\ \E n \in DataLens, fb \in Fills : data = DataOf(n, fb)
    /\ overflow_checks \in BOOLEAN
    /\ result = NotRun
    /\ hpc = "ready"
    /\ advanced = 0
    /\ block = ItemBlock(syscall, data)
    /\ calls = <<>>
    /\ pc = "host"
    /\ idx = 0
    /\ alloc = NewAlloc
    /\ staged = <<>>
    /\ committed = <<>>
    /\ collected = <<>>
    /\ user = <<>>
    /\ sallies = 1
    /\ host_runs = TRUE
    /\ host_pos = 0
    /\ kernel = KernelInit
    /\ klog = <<>>
    /\ EntryIdle

\* host::execute on the item: execute_syscall, and, where it enters the
\* kernel, the kernel storing rax into ret[0] and a byte through a pointer
\* it was given.
ServeItem ==
    /\ pc = "host"
    /\ hpc = "ready"
    /\ \E it \in {item_at(block, host_pos)} :
       \E r \in {execute_syscall(it.payload, it.data)} :
           /\ result' = r
           /\ host_pos' = it.next
           /\ IF r.kcall = NoCall
              THEN block' = block /\ klog' = klog
              ELSE /\ klog' = Append(klog, r.kcall)
                   /\ IF kernel_exits(r.kcall) THEN block' = block
                      ELSE \E kret \in KernelRets :
                           \E b \in {store_rax(block, it, kret)} :
                              \/ block' = b
                              \/ \E q \in kernel_stores(r.kcall, Len(it.data),
                                                        Len(block) - it.data_abs) :
                                     block' = write_bytes(b, it.data_abs + q, <<KernelByte>>)
    /\ hpc' = "done"
    /\ UNCHANGED <<syscall, data, overflow_checks, advanced>>
    /\ UNCHANGED <<calls, pc, idx, alloc, staged, committed, collected, user, sallies>>
    /\ UNCHANGED <<host_runs, kernel, entryvars>>

\* The host goes on behind the item: the sync item and the End header.
ServeRest ==
    /\ hpc = "done"
    /\ result.tag # "Panic"
    /\ ~kernel_exits(result.kcall)
    /\ \/ HostItem
       \/ HostEnd

ServeNext == ServeItem \/ ServeRest

SpecServe == ServeInit /\ [][ServeNext]_vars

---------------------------------------------------------------------------
\* Properties of the host dispatcher (SpecHost).

\* C1: every memory range (pointer, element count x element size) that
\* execute_syscall hands to the kernel lies entirely inside the item's data
\* tail, and an item it does not execute is rejected with an errno (EFAULT
\* for a range outside the tail).
C1_KernelRangesInsideTail ==
    hpc = "done" =>
        IF result.tag = "Ok"
        THEN \A r \in result.kcall.mem : r.off + r.count * r.el <= Len(data)
        ELSE result.tag = "Err" /\ result.errno \in {EFAULT, ENOSYS}

DerefTypes == {"u8", "socklen_t", "timespec", "epoll_event", "sigset_t"}

\* len * size_of::<T>() <= data.len() and offset <= data.len() - len * size_of::<T>(),
\* the product taken in the integers.
InBounds(d, offset, len, T) ==
    /\ len * SizeOf(T) <= Len(d)
    /\ offset <= Len(d) - len * SizeOf(T)

\* C2: deref::<T>(data, offset, len) returns the pointer data + offset exactly
\* when len * sizeof(T) <= len(data) and offset <= len(data) - len * sizeof(T),
\* with the mathematical product, and Err(EFAULT) in every other case; checked
\* for every offset and length the item's argv holds.
C2_DerefExact ==
    \A T \in DerefTypes : \A i, j \in 1..6 :
        LET r == deref(data, syscall.argv[i], syscall.argv[j], T)
        IN  IF InBounds(data, syscall.argv[i], syscall.argv[j], T)
            THEN r.tag = "Ok" /\ r.ptr = syscall.argv[i]
            ELSE r = Err(EFAULT)

\* The argv slots that carry a typed offset: clock_gettime tp, epoll_ctl event,
\* epoll_wait / epoll_pwait events and sigmask, the addr / addrlen pair of
\* accept, accept4, getsockname and recvfrom, setsockopt optval.
TypedSlots(num) ==
    CASE num = SYS_clock_gettime -> {2}
      [] num = SYS_epoll_ctl -> {4}
      [] num = SYS_epoll_wait -> {2}
      [] num = SYS_epoll_pwait -> {2, 5}
      [] num \in {SYS_accept, SYS_accept4, SYS_getsockname} -> {2, 3}
      [] num = SYS_recvfrom -> {5, 6}
      [] num = SYS_setsockopt -> {4}
      [] OTHER -> {}

\* C3 as stated: advancing any typed offset of an accepted item by one byte
\* makes the dispatcher return EFAULT without invoking the kernel.
C3_AdvanceAnyTypedOffset ==
    (hpc = "done" /\ advanced \in TypedSlots(syscall.num)) => result = Err(EFAULT)

\* The typed offsets of an item that the dispatcher dereferences: for accept,
\* accept4 and recvfrom the addrlen offset only when the address offset is not NULL.
DereferencedTypedSlots(sc) ==
    TypedSlots(sc.num) \
        (CASE sc.num \in {SYS_accept, SYS_accept4} /\ sc.argv[2] = NULL -> {3}
           [] sc.num = SYS_recvfrom /\ sc.argv[5] = NULL -> {6}
           [] OTHER -> {})

\* C3 (amended): advancing by one byte a typed offset of an accepted item
\* makes the dispatcher return EFAULT without invoking the kernel, where for
\* accept, accept4 and recvfrom the addrlen offset counts only when the
\* address offset is not NULL.
C3_AdvanceDereferencedOffset ==
    (hpc = "done" /\ advanced \in DereferencedTypedSlots(syscall)) =>
        result = Err(EFAULT)

\* An accepted recvfrom with a source address whose addrlen offset was advanced.
C3_Witness ==
    /\ hpc = "done"
    /\ syscall.num = SYS_recvfrom
    /\ syscall.argv[5] # NULL
    /\ advanced = 6
    /\ result = Err(EFAULT)


---------------------------------------------------------------------------
\* Properties of the guest pipeline and the sally (Spec).

\* C4: for every item the guest's stage and commit produce, every argv entry
\* that is an offset points inside the data tail of that item and is aligned
\* for its referent type: the dispatcher hands the item it is about to execute
\* to the kernel with ranges inside the tail, or answers ENOSYS to a number it
\* does not route; it never rejects the item with EFAULT.
C4_GuestItemsAccepted ==
    pc = "host" =>
        LET it == item_at(block, host_pos)
        IN  it.tag = "Item" =>
                LET r == execute_syscall(it.payload, it.data)
                IN  IF it.payload.num \in Routed
                    THEN /\ r.tag = "Ok"
                         /\ \A m \in r.kcall.mem : m.off + m.count * m.el <= Len(it.data)
                    ELSE r = Err(ENOSYS)

\* The host is about to execute a clock_gettime staged behind a read of 5 bytes.
C4_Witness ==
    /\ pc = "host"
    /\ Len(klog) = 1
    /\ klog[1].num = SYS_read
    /\ klog[1].argv[3] = 5
    /\ item_at(block, host_pos).tag = "Item"
    /\ item_at(block, host_pos).payload.num = SYS_clock_gettime
    /\ execute_syscall(item_at(block, host_pos).payload, item_at(block, host_pos).data).tag = "Ok"

\* The bytes a call stages behind its Syscall payload, padded to the machine word.
PayloadSize(call) ==
    CASE call.name = "ClockGettime" -> SizeOf("timespec")
      [] call.name \in {"Read", "Write"} -> align_up(call.count, AlignOf("usize"))
      [] OTHER -> 0

\* C5: committing a staged syscall writes, for that item, a Header with
\* kind = Syscall and size = sizeof(Syscall) + staged payload size, the number
\* T::NUM, the six argv words built at stage time, the return words
\* [-ENOSYS, 0], and the initial bytes of every In reference of the item.
C5_CommitWrites ==
    pc \in {"commit", "end", "sally"} =>
        \A k \in 1..Len(committed) :
            LET it == staged[k]
            IN  /\ read_words(block, it.header_ref.abs, 2)
                       = <<SyscallSize + PayloadSize(calls[k]), KindSyscall>>
                /\ it.num_ref.abs = it.header_ref.abs + HeaderSize
                /\ read_word(block, it.num_ref.abs) = calls[k].num
                /\ read_words(block, it.argv.ref.abs, 6) = it.argv.val
                /\ it.argv.val[1] = Argv(calls[k].args)[1]
                /\ read_words(block, it.ret_ref.abs, 2) = <<NegErrno(ENOSYS), 0>>
                /\ calls[k].name = "Write" =>
                       read_bytes(block, it.ret_ref.abs + 16 + it.argv.val[2], calls[k].count)
                           = calls[k].buf

\* A read of 5 bytes and a write are both committed.
C5_Witness ==
    /\ pc = "end"
    /\ Len(committed) = 2
    /\ calls[1].name = "Read"
    /\ calls[1].count = 5
    /\ calls[2].name = "Write"
    /\ read_word(block, staged[2].num_ref.abs) = SYS_write

C7_PhaseOrder ==
    /\ sallies <= 1
    /\ Len(committed) <= Len(staged)
    /\ Len(committed) > 0 => Len(staged) = Len(calls)
    /\ sallies = 1 => Len(committed) = Len(calls)
    /\ pc \in {"host", "exited"} => sallies = 1 /\ Len(collected) = 0
    /\ Len(collected) > 0 => sallies = 1 /\ pc \in {"collect", "done"}
    /\ pc = "done" => sallies = 1 /\ Len(collected) = Len(calls)

\* A batch of three went through stage, commit, one sally and collect.
C7_Witness ==
    /\ pc = "done"
    /\ sallies = 1
    /\ Len(staged) = 3
    /\ Len(committed) = 3
    /\ Len(collected) = 3

IsRouted(call) == call.num \in Routed

\* C8: the host executes every staged Syscall item (of a number it routes)
\* exactly once, in the order the items were staged, and all of them before
\* the sally returns to the guest.
C8_HostExecutesInOrder ==
    LET routed == SelectSeq(calls, IsRouted)
    IN  /\ Len(klog) <= Len(routed)
        /\ \A k \in 1..Len(klog) :
               /\ klog[k].num = routed[k].num
               /\ routed[k].args # <<>> => klog[k].argv[1] = routed[k].args[1]
        /\ (pc \in {"collect", "done"} /\ host_runs) => Len(klog) = Len(routed)

\* execute((Sync, Read, Close)): the file was read before the fd was closed.
C8_Witness ==
    /\ pc = "collect"
    /\ host_runs
    /\ Len(klog) = 3
    /\ klog[1].num = SYS_sync
    /\ klog[2].num = SYS_read
    /\ klog[3].num = SYS_close
    /\ kernel.pos = Len(FileContent)
    /\ OpenFd \notin kernel.open

\* One call in a sally of its own, against the host OS in state k.
solo(call, k) ==
    LET st == stage(call, NewAlloc)
        blk == commit(st.item, BlockInit)
        it == item_at(blk, 0)
        r == execute_syscall(it.payload, it.data)
        kr == kernel_call(r.kcall, it.data, k)
        after == IF r.tag = "Ok"
                 THEN write_bytes(write_words(blk, it.ret_abs, <<kr.ret>>),
                                  it.data_abs, kr.data)
                 ELSE blk
        com == committed_of(st.item)
    IN  [value |-> collect_value(com, after),
         user |-> collect_user(com, after, UserInit(call)),
         kernel |-> IF r.tag = "Ok" THEN kr.kernel ELSE k]

RECURSIVE separately(_, _)
\* The calls executed one after the other, each in a sally of its own.
separately(cs, k) ==
    IF cs = <<>> THEN <<>>
    ELSE LET s == solo(Head(cs), k)
         IN  <<[value |-> s.value, user |-> s.user]>> \o separately(Tail(cs), s.kernel)

\* C9: execute((A, B, C)) returns the results, and fills the callers'
\* buffers, as executing A, B and C in three separate sallies does; a kernel
\* errno or a host rejection of one element changes no other element's result.
C9_BatchAsSeparate ==
    (pc = "done" /\ host_runs) =>
        [k \in 1..Len(calls) |-> [value |-> collected[k], user |-> user[k]]]
            = separately(calls, KernelInit)

\* A batch whose first call fails in the kernel, whose second the host
\* rejects, and whose third succeeds.
C9_Witness ==
    /\ pc = "done"
    /\ host_runs
    /\ Len(calls) = 3
    /\ collected[1] = [tag |-> "Err", val |-> EBADF]
    /\ calls[2].name = "Getpid"
    /\ collected[2] = [tag |-> "Err", val |-> ENOSYS]
    /\ calls[3].name = "Read"
    /\ collected[3] = [tag |-> "Ok", val |-> 4]
    /\ user[3] = FileContent \o <<0>>

RECURSIVE headers_from(_, _)
\* The headers of the items from byte offset pos up to the End item.
headers_from(blk, pos) ==
    LET it == item_at(blk, pos)
    IN  CASE it.tag = "Item" ->
                <<[kind |-> it.kind, size |-> it.size]>> \o headers_from(blk, it.next)
          [] it.tag = "End" -> <<[kind |-> KindEnd, size |-> it.size]>>
          [] OTHER -> <<[kind |-> -1, size |-> 0]>>

RECURSIVE accounted(_)
\* The sum of sizeof(Header) + header.size over the headers.
accounted(hs) ==
    IF hs = <<>> THEN 0 ELSE HeaderSize + Head(hs).size + accounted(Tail(hs))

\* C10: for a staged and committed block, the sum over all items, the End item
\* included, of sizeof(Header) + header.size equals the block capacity, the
\* final item has kind End, and the End header's size equals the bytes of the
\* block left free behind the last staged item and the End header.
C10_HeaderAccounting ==
    pc \in {"sally", "host", "collect", "done", "exited"} =>
        LET hs == headers_from(block, 0)
            last == staged[Len(staged)]
        IN  /\ accounted(hs) = BlockBytes
            /\ Len(hs) = Len(calls) + 1
            /\ \A k \in 1..Len(calls) : hs[k].kind = KindSyscall
            /\ hs[Len(hs)].kind = KindEnd
            /\ hs[Len(hs)].size
                   = BlockBytes - (last.ret_ref.abs + 16 + PayloadSize(calls[Len(calls)]))
                                - HeaderSize

\* A block of three items, one of them with a padded data tail, ready for the sally.
C10_Witness ==
    /\ pc = "sally"
    /\ Len(staged) = 3
    /\ staged[2].staged_size = 8
    /\ calls[2].count = 5
    /\ item_at(block, alloc.offset).tag = "End"


\* The bytes the section of a call consumes: what the call allocates behind
\* the return words.
SectionSize(call) ==
    CASE call.name = "ClockGettime" -> SizeOf("timespec")
      [] call.name \in {"Read", "Write"} -> call.count
      [] OTHER -> 0

\* The byte offset behind the item k: the header of the next item, or the end
\* of what the allocator handed out.
ItemEnd(k) ==
    IF k < Len(staged) THEN staged[k + 1].header_ref.abs ELSE alloc.base + alloc.offset

\* C11: for every staged syscall the size its header gets is the exact byte
\* span of the item behind the header (the Syscall payload, the bytes of the
\* section and the tail padding), it is a multiple of the machine word, and
\* the padding is exactly the bytes the section lacks to the next multiple of
\* align_of(usize).
C11_HeaderSizeIsSpan ==
    \A k \in 1..Len(staged) :
        LET it == staged[k]
            section == SectionSize(calls[k])
            pad == (AlignOf("usize") - (section % AlignOf("usize"))) % AlignOf("usize")
        IN  /\ it.staged_size = section + pad
            /\ (SyscallSize + it.staged_size) % SizeOf("usize") = 0
            /\ ItemEnd(k) - (it.header_ref.abs + HeaderSize) = SyscallSize + it.staged_size
            /\ k <= Len(committed) =>
                   read_word(block, it.header_ref.abs) = SyscallSize + it.staged_size

\* A read of 5 bytes, padded by 3, committed in front of another item.
C11_Witness ==
    /\ Len(committed) = 2
    /\ calls[1].name = "Read"
    /\ calls[1].count = 5
    /\ staged[1].staged_size = 8
    /\ read_word(block, staged[1].header_ref.abs) = SyscallSize + 8
    /\ staged[2].header_ref.abs = HeaderSize + SyscallSize + 8


\* The bytes an item takes in the block: header, Syscall payload, padded section.
ItemBytes(call) == HeaderSize + SyscallSize + PayloadSize(call)

\* C12: a stage whose allocations would run past the bytes of the block left
\* to the items fails with ENOMEM, and only such a stage fails; when stage
\* fails nothing is committed and no sally is triggered; every item that is
\* committed lies inside the block, so commit has nothing to fail on.
C12_StageENOMEM ==
    /\ pc = "stage" =>
           LET st == stage(calls[idx], alloc)
           IN  IF alloc.offset + ItemBytes(calls[idx]) > alloc.cap
               THEN st = StageErr(ENOMEM)
               ELSE st.tag = "Ok"
    /\ pc = "failed" =>
           /\ stage(calls[idx], alloc) = StageErr(ENOMEM)
           /\ committed = <<>>
           /\ block = BlockInit
           /\ sallies = 0
           /\ klog = <<>>
    /\ Len(block) = BlockBytes
    /\ \A k \in 1..Len(staged) : ItemEnd(k) <= BlockBytes - HeaderSize

\* The third call of a batch does not fit behind the first two.
C12_Witness ==
    /\ pc = "failed"
    /\ idx = 3
    /\ Len(staged) = 2
    /\ stage(calls[3], alloc) = StageErr(ENOMEM)
    /\ committed = <<>>
    /\ sallies = 0


---------------------------------------------------------------------------
\* Properties of the Handler's entries (SpecEntry).

PassthroughNames == {"Close", "Dup", "Dup2", "Dup3", "Eventfd2", "Exit", "ExitGroup", "Sync"}

\* The return register of the kernel call the host made for the entry.
KernelRet == kernel_call(klog[1], <<>>, KernelInit).ret

\* C14: for every passthrough syscall a successful run through the pipeline
\* returns to the guest caller the same numeric value as the host's kernel
\* call with the same arguments; the pipeline stages no payload for it.
C14_PassthroughIdentity ==
    (/\ pc = "typed"
     /\ calls[1].name \in PassthroughNames
     /\ klog # <<>>
     /\ KernelRet <= WordMod - 4096) =>
        /\ collected[1] = GuestOk(KernelRet)
        /\ klog[1].argv = calls[1].args
        /\ stage(calls[1], NewAlloc).item.staged_size = 0
        /\ stage(calls[1], NewAlloc).item.staged = NoStaged


\* The numbers the spec lists as routed by the dispatcher.
RoutingTable ==
    {SYS_accept, SYS_accept4, SYS_bind, SYS_clock_gettime, SYS_close, SYS_connect,
     SYS_dup, SYS_dup2, SYS_dup3, SYS_epoll_create1, SYS_epoll_ctl, SYS_epoll_pwait,
     SYS_epoll_wait, SYS_eventfd2, SYS_exit, SYS_exit_group, SYS_fcntl,
     SYS_getsockname, SYS_listen, SYS_read, SYS_recvfrom, SYS_setsockopt, SYS_socket,
     SYS_sync, SYS_write}

\* C15: the dispatcher returns ENOSYS exactly for the numbers that are not in
\* its routing table: an item with another number yields Err(ENOSYS), and an
\* item with a routed number never yields ENOSYS from the dispatcher itself.
C15_ENOSYSIffUnrouted ==
    hpc = "done" => (result = Err(ENOSYS) <=> syscall.num \notin RoutingTable)

\* An fstat item was answered ENOSYS, without a kernel call.
C15_Witness ==
    /\ hpc = "done"
    /\ syscall.num = SYS_fstat
    /\ result = Err(ENOSYS)
    /\ result.kcall = NoCall


---------------------------------------------------------------------------
\* Properties of the return words (Spec).

\* The two return words of the element k, as the block holds them.
RetWords(blk, k) == read_words(blk, staged[k].ret_ref.abs, 2)

\* The element whose item the host is at.
AtHost(k) == staged[k].header_ref.abs = host_pos

\* From the commit on, the second return word of every element holds 0.
SecondRetWordZero ==
    pc \in {"sally", "host", "collect", "done", "exited"} =>
        \A k \in 1..Len(staged) : RetWords(block, k)[2] = 0

\* A host step that entered the kernel and came back leaves the kernel's
\* return register in the first return word of the item it was at.
KernelRetStored ==
    \A k \in 1..Len(staged) :
        (pc = "host" /\ AtHost(k) /\ klog' # klog /\ pc' = "host") =>
            RetWords(block', k) =
                <<kernel_call(klog'[Len(klog')], item_at(block, host_pos).data, kernel).ret, 0>>

\* C16: for every routed syscall the host stores the kernel's return register
\* verbatim into ret[0] of the item and never writes ret[1]: after any sally
\* ret[1] of every item still holds the 0 written at commit.
C16_RetWordsAfterSally == []SecondRetWordZero /\ [][KernelRetStored]_vars

\* The host served a read of the open file: the item's return words are
\* (4, 0), the four bytes the kernel delivered and the untouched second word.
C16_Witness ==
    /\ pc = "collect"
    /\ host_runs
    /\ \E k \in 1..Len(staged) :
        /\ calls[k].name = "Read"
        /\ RetWords(block, k) = <<4, 0>>


---------------------------------------------------------------------------
\* Properties of the sockaddr-output pairs (SpecHost).

\* The calls that take a sockaddr-output pair, and where the pair is in argv.
SockaddrOutputCalls == {SYS_accept, SYS_accept4, SYS_getsockname, SYS_recvfrom}

AddrSlot(num) == IF num = SYS_recvfrom THEN 5 ELSE 2

\* The item's pair is dereferenced: the address offset of getsockname always,
\* that of accept, accept4 and recvfrom unless it is NULL.
PairDereferenced ==
    /\ syscall.num \in SockaddrOutputCalls
    /\ syscall.num = SYS_getsockname \/ syscall.argv[AddrSlot(syscall.num)] # NULL

\* What the spec asks of a pair: the addrlen word inside the tail and aligned
\* to socklen_t, the *addrlen bytes at the address offset inside the tail, the
\* address aligned to sockaddr_storage.
PairValid(d, addr_offset, addrlen_offset) ==
    /\ addrlen_offset + SizeOf("socklen_t") <= Len(d)
    /\ addrlen_offset % AlignOf("socklen_t") = 0
    /\ addr_offset + read_socklen(d, addrlen_offset) <= Len(d)
    /\ addr_offset % AlignOf("sockaddr_storage") = 0

\* C17: deref_sockaddr_output succeeds only if the addrlen word lies inside the
\* data tail and is aligned to socklen_t, the *addrlen bytes at addr_offset lie
\* inside the tail and the address is aligned to sockaddr_storage; the addrlen
\* word is read only once it is validated, and any failed check yields EFAULT.
\* An item whose pair is dereferenced is executed only with a valid pair, and
\* the kernel is handed exactly the address bytes and the addrlen word.
C17_SockaddrOutputChecked ==
    (hpc = "done" /\ PairDereferenced) =>
        LET a == syscall.argv[AddrSlot(syscall.num)]
            b == syscall.argv[AddrSlot(syscall.num) + 1]
            r == deref_sockaddr_output(data, a, b)
        IN  /\ r.tag = "Ok" <=> PairValid(data, a, b)
            /\ r.tag # "Ok" => r = Err(EFAULT)
            /\ r.tag = "Ok" => r.mem = {Range(a, read_socklen(data, b), "u8"),
                                        Range(b, 1, "socklen_t")}
            /\ result.tag = "Ok" => PairValid(data, a, b) /\ r.mem \subseteq result.kcall.mem
            /\ (~PairValid(data, a, b) /\ syscall.num # SYS_recvfrom) => result = Err(EFAULT)

\* getsockname was executed with a pair of 16 address bytes at offset 8, the
\* addrlen word at offset 4.
C17_Witness ==
    /\ hpc = "done"
    /\ syscall.num = SYS_getsockname
    /\ syscall.argv[2] = 8
    /\ syscall.argv[3] = 4
    /\ Len(data) >= 24
    /\ read_socklen(data, 4) = 16
    /\ result.tag = "Ok"

---------------------------------------------------------------------------
\* Properties of the collect rules (SpecCollect).

\* The result the return words of the item stand for.
HostResult == ret_into_result(read_words(block, staged[1].ret_ref.abs, 2))

\* The bytes the block holds in a region of the item.
Region(ref) == read_bytes(block, ref.abs, ref.size)

\* buf with its first n bytes taken from bytes.
Overlay(buf, bytes, n) == [i \in 1..Len(buf) |-> IF i <= n THEN bytes[i] ELSE buf[i]]

\* C18: read's collect never copies more than count bytes into the caller's
\* buffer, whatever the host wrote into ret[0]: a length n <= count copies
\* exactly the first n payload bytes, a larger length is rejected before any
\* byte is copied, and an errno becomes an error with the buffer untouched.
C18_ReadCollectClamped ==
    (pc = "collected" /\ calls[1].name = "Read") =>
        LET count == calls[1].count
            before == UserInit(calls[1])
            res == HostResult
        IN  /\ Len(user[1]) = count
            /\ res.tag = "Err" => collected[1] = res /\ user[1] = before
            /\ (res.tag = "Ok" /\ res.val <= count) =>
                    /\ collected[1] = res
                    /\ user[1] = Overlay(before, Region(staged[1].staged.ref), res.val)
            /\ (res.tag = "Ok" /\ res.val > count) =>
                    /\ collected[1].tag # "Ok"
                    /\ user[1] = before

\* The host reported 5 bytes for a read of 4: nothing was copied.
C18_Witness ==
    /\ pc = "collected"
    /\ calls[1].name = "Read"
    /\ calls[1].count = 4
    /\ HostResult = GuestOk(5)
    /\ Region(staged[1].staged.ref) # Zeros(4)
    /\ user[1] = Zeros(4)


\* C19: recvfrom's collect copies into the caller's source-address buffer at
\* most min(initial capacity, addrlen returned by the host) bytes, whatever
\* addrlen the host writes back, and sets the caller's addrlen to the value
\* read back; a call that fails leaves the caller's memory as it was.  The
\* committed item passes the host's checks, and the host hands the kernel the
\* address region with the capacity as its length.
C19_RecvfromAddrBounded ==
    /\ (pc = "reply" /\ calls[1].name = "Recvfrom") =>
        LET it == item_at(block, 0)
            r == execute_syscall(it.payload, it.data)
        IN  /\ r.tag = "Ok"
            /\ Range(it.payload.argv[5], Len(calls[1].buf), "u8") \in r.kcall.mem
    /\ (pc = "collected" /\ calls[1].name = "Recvfrom") =>
        LET before == UserInit(calls[1])
            capacity == Len(calls[1].buf)
            back == read_socklen(block, staged[1].staged.addrlen.abs)
            res == HostResult
        IN  /\ Len(user[1].src) = capacity
            /\ IF res.tag = "Ok" /\ res.val <= calls[1].count
               THEN /\ collected[1] = res
                    /\ user[1].src = Overlay(before.src, Region(staged[1].staged.addr),
                                             Min(capacity, back))
                    /\ user[1].addrlen = back
               ELSE user[1] = before

\* The test's case: a buffer of a sockaddr, the host delivers 8 bytes, the
\* AF_INET peer and an addrlen of sizeof(sockaddr).
C19_Witness ==
    /\ pc = "collected"
    /\ calls[1].name = "Recvfrom"
    /\ Len(calls[1].buf) = SizeOf("sockaddr")
    /\ collected[1] = GuestOk(8)
    /\ user[1].src = PeerAddr
    /\ user[1].addrlen = SizeOf("sockaddr")


\* C20: clock_gettime's collect copies the Out timespec into the caller's tp
\* only if the return indicates success; on an error the caller's timespec is
\* left as it was, and in both cases the call's result is the collected return.
C20_ClockGettimeCollect ==
    (pc = "collected" /\ calls[1].name = "ClockGettime") =>
        LET res == HostResult
        IN  /\ collected[1] = IF res.tag = "Ok" THEN GuestOk(0) ELSE res
            /\ user[1] = IF res.tag = "Ok"
                         THEN Region(staged[1].staged.ref)
                         ELSE UserInit(calls[1])

\* The host returned EBADF and wrote the timespec region all the same: the
\* caller got the error and its timespec kept its zeros.
C20_Witness ==
    /\ pc = "collected"
    /\ calls[1].name = "ClockGettime"
    /\ collected[1] = GuestErr(EBADF)
    /\ Region(staged[1].staged.ref) # Zeros(SizeOf("timespec"))
    /\ user[1] = Zeros(SizeOf("timespec"))


---------------------------------------------------------------------------
\* Commit determinism (Spec).

ZeroBlock == words_to_bytes([w \in 1..BlockWords |-> 0])

\* The commit of a staged batch, element after element.
RECURSIVE commit_batch(_, _)
commit_batch(items, blk) ==
    IF items = <<>> THEN blk
    ELSE With(commit(Head(items), blk), LAMBDA b : commit_batch(Tail(items), b))

\* The staged batch committed into a zeroed block, now.
CommittedZero == commit_batch(staged, ZeroBlock)

\* The bytes of the item of a call, as a function of the call alone: header,
\* number, argv (a payload is at offset 0 of its section), return words, the
\* In bytes, zeros where the commit writes nothing.
ItemImage(call) ==
    words_to_bytes(
        <<SyscallSize + PayloadSize(call), KindSyscall, call.num>>
        \o (IF call.name \in {"Read", "Write"} THEN Argv(<<call.args[1], 0, call.count>>)
            ELSE IF call.name = "ClockGettime" THEN Argv(<<call.args[1], 0>>)
            ELSE Argv(call.args))
        \o <<NegErrno(ENOSYS), 0>>)
    \o (IF call.name = "Write" THEN call.buf ELSE <<>>)
    \o Zeros(PayloadSize(call) - (IF call.name = "Write" THEN call.count ELSE 0))

RECURSIVE BatchImage(_)
BatchImage(cs) == IF cs = <<>> THEN <<>> ELSE ItemImage(Head(cs)) \o BatchImage(Tail(cs))

\* C21: committing the same staged batch into two zeroed blocks of equal size
\* produces byte-identical blocks: whenever in the life of the Handler the
\* staged batch is committed into a zeroed block (before or after the sally,
\* whatever the host did and whatever was collected), the block is the image
\* of the staged calls followed by zeros.
C21_CommitDeterminism ==
    \A img \in {BatchImage(SubSeq(calls, 1, Len(staged)))} :
        CommittedZero = Overlay(ZeroBlock, img, Len(img))

\* A batch with a write was staged and the host has served the sally: the
\* batch commits into a zeroed block to something else than zeros.
C21_Witness ==
    /\ pc = "collect"
    /\ sallies = 1
    /\ host_runs
    /\ \E k \in 1..Len(calls) : calls[k].name = "Write"
    /\ CommittedZero # ZeroBlock


---------------------------------------------------------------------------
\* Properties of the iteration over the block (SpecBlock).

\* The header words at the place the host is at.
HeaderHere == read_words(block, host_pos, 2)

\* The bytes of the block behind that header.
Remaining == Len(block) - host_pos - HeaderSize

\* What the iteration makes of the place the host is at.
IterationChecked ==
    pc = "host" =>
        \A it \in {item_at(block, host_pos)} :
            IF Remaining < 0 THEN it = [tag |-> "Err", errno |-> EINVAL]
            ELSE /\ HeaderHere[2] \notin {KindEnd, KindSyscall, KindGdbcall} =>
                        it = [tag |-> "Err", errno |-> EINVAL]
                 /\ HeaderHere[2] = KindEnd => it.tag = "End"
                 /\ (HeaderHere[2] \in {KindSyscall, KindGdbcall} /\ HeaderHere[1] > Remaining) =>
                        it = [tag |-> "Err", errno |-> EINVAL]
                 /\ (/\ HeaderHere[2] \in {KindSyscall, KindGdbcall}
                     /\ HeaderHere[1] >= SyscallSize
                     /\ HeaderHere[1] <= Remaining) =>
                        /\ it.tag = "Item"
                        /\ it.kind = HeaderHere[2]
                        /\ words_to_bytes(<<it.payload.num>> \o it.payload.argv \o it.payload.ret)
                               \o it.data
                           = read_bytes(block, host_pos + HeaderSize, HeaderHere[1])

\* A step of the walk that goes on is past the header and its size bytes.
AdvancesPastItem ==
    (pc = "host" /\ pc' = "host") => host_pos' = host_pos + HeaderSize + HeaderHere[1]

Kind_as_usize(name) ==
    CASE name = "End" -> KindEnd
      [] name = "Syscall" -> KindSyscall
      [] name = "Gdbcall" -> KindGdbcall

KindNames == {"End", "Syscall", "Gdbcall"}

\* Words and sizes to decode besides those of the block.
ProbeWords == KindWords \cup HeaderSizes \cup {WordMod - 1}

\* C23: Kind::try_from(w) returns End for 0, Syscall for 1, Gdbcall for 2 and
\* Err(EINVAL) for every other word, so decoding the word of a kind returns
\* that kind; Header::try_from([size, kind]) keeps the size verbatim and fails
\* with EINVAL exactly when the kind word is unknown.  Checked on the header
\* the host is at and on the probe words.
C23_KindDecoding ==
    /\ Kind_as_usize("End") = 0 /\ Kind_as_usize("Syscall") = 1 /\ Kind_as_usize("Gdbcall") = 2
    /\ \A name \in KindNames :
        Kind_try_from(Kind_as_usize(name))
            = [tag |-> "Ok", errno |-> 0, kind |-> Kind_as_usize(name)]
    /\ \A w \in ProbeWords \cup (IF Remaining >= 0 THEN {HeaderHere[2]} ELSE {}) :
        /\ w \notin {Kind_as_usize(name) : name \in KindNames} =>
                /\ Kind_try_from(w).tag = "Err"
                /\ Kind_try_from(w).errno = EINVAL
        /\ \A size \in ProbeWords \cup (IF Remaining >= 0 THEN {HeaderHere[1]} ELSE {}) :
            \A h \in {Header_try_from(<<size, w>>)} :
                IF w \in {Kind_as_usize(name) : name \in KindNames}
                THEN h.tag = "Ok" /\ h.size = size /\ h.kind = w
                ELSE h.tag = "Err" /\ h.errno = EINVAL

\* The host walked over an item and is at a header whose kind word is 255:
\* the header is refused.
C23_Witness ==
    /\ pc = "host"
    /\ host_pos > 0
    /\ Remaining >= 0
    /\ HeaderHere[2] = 255
    /\ Header_try_from(HeaderHere).tag = "Err"


---------------------------------------------------------------------------
\* Properties of the stubs (SpecStub).

\* A call of the named stub has returned.
StubReturned(name) == pc = "returned" /\ calls[1].name = name

\* minor() of a device number.
Minor(dev) == (dev % 256) + ((dev \div 4096) \div 256) * 256

\* fstat on a standard descriptor has left the synthetic record behind,
\* fstat on any other descriptor has left the statbuf as it was.
FstatAnswered ==
    StubReturned("Fstat") =>
        \A fd \in {calls[1].args[1]} :
            IF fd \in {0, 1, 2}
            THEN /\ collected = <<GuestOk(0)>>
                 /\ user[1].st_mode = 4096 + 6 * 64
                 /\ user[1].st_uid = 1000
                 /\ user[1].st_gid = 5
                 /\ user[1].st_blksize = 4096
                 /\ user[1].st_atime = 1579507218
                 /\ user[1].st_mtime = 1579507218
                 /\ user[1].st_ctime = 1579507218
                 /\ Minor(user[1].st_dev) = (IF fd = 0 THEN 25 ELSE 12)
                 /\ \A f \in DOMAIN user[1] : user[1][f] # DirtyByte
            ELSE /\ collected = <<GuestErr(77)>>
                 /\ user[1] = calls[1].mem

\* A step of a call of fstat writes nothing to the block and reaches neither
\* the host nor its OS.
FstatStaysInGuest ==
    (calls' # <<>> /\ calls'[1].name = "Fstat") =>
        /\ block' = block
        /\ sallies' = sallies
        /\ klog' = klog
        /\ kernel' = kernel

\* C24: fstat is answered in the guest: for fd 0, 1 and 2 it returns Ok(())
\* and overwrites the statbuf with the synthetic record (a FIFO of mode
\* 0o600, uid 1000, gid 5, block size 4096, the three times 1579507218,
\* device minor 0x19 for fd 0 and 0xc for fd 1 and 2); for every other
\* descriptor, an open file included, it returns Err(EBADFD) and leaves the
\* statbuf alone.  Nothing is written to the block, the host is not invoked.
C24_FstatStub == []FstatAnswered /\ [][FstatStaysInGuest]_vars

\* fstat(1) has overwritten a statbuf the caller had written before.
C24_Witness ==
    /\ StubReturned("Fstat")
    /\ calls[1].args[1] = STDOUT_FILENO
    /\ calls[1].mem = DirtyStat
    /\ collected = <<GuestOk(0)>>
    /\ user[1] = SyntheticStat(STDOUT_FILENO)
    /\ sallies = 0

\* The flags of the call of getrandom at hand.
Flags == calls[1].args[1]

\* The RNG was not ready at the step the call of getrandom returned on.
ReturnedNotReady ==
    /\ StubReturned("Getrandom")
    /\ rng # <<>>
    /\ ~rng[Len(rng)]

\* The steps of the RNG that were ready.
ReadySteps == {t \in 1..Len(rng) : rng[t]}

\* Byte j of the buffer holds the byte of its place in the word of step t.
HoldsWord(j, t) == user[1][j] = 16 * t + ((j - 1) % 8) + 1

\* C25: with RANDOM set and NONBLOCK clear, the RNG not being ready while
\* chunk i is filled, getrandom returns Ok(8 * i): a multiple of 8 below the
\* length of the buffer; the first 8 * i bytes hold what the RNG gave, one
\* word per chunk, and the bytes from 8 * i on are as the caller left them.
C25_GetrandomShortRead ==
    (ReturnedNotReady /\ Flags = 2) =>
        \A i \in {Cardinality(ReadySteps)} :
            /\ collected = <<GuestOk(8 * i)>>
            /\ 8 * i < Len(calls[1].mem)
            /\ Len(user[1]) = Len(calls[1].mem)
            /\ \A j \in 1..(8 * i) : HoldsWord(j, (j - 1) \div 8 + 1)
            /\ \A j \in (8 * i + 1)..Len(user[1]) : user[1][j] = calls[1].mem[j]

\* getrandom(RANDOM) on 24 bytes the caller had written: two chunks were
\* filled, then the RNG was not ready, and the call returned Ok(16).
C25_Witness ==
    /\ ReturnedNotReady
    /\ Flags = 2
    /\ calls[1].mem = Dirty(24)
    /\ rng = <<TRUE, TRUE, FALSE>>
    /\ collected = <<GuestOk(16)>>

\* C26: with NONBLOCK set, RANDOM set or not, getrandom returns Err(EAGAIN)
\* at the first step at which the RNG is not ready, whatever chunks were
\* filled before, and never asks the RNG again after such a step.
C26_GetrandomNonblock ==
    (calls # <<>> /\ calls[1].name = "Getrandom" /\ Flags \in {1, 3}) =>
        /\ pc = "rng" => \A t \in 1..Len(rng) : rng[t]
        /\ ReturnedNotReady =>
               /\ collected = <<GuestErr(11)>>
               /\ \A t \in 1..(Len(rng) - 1) : rng[t]

\* getrandom(NONBLOCK | RANDOM): one chunk was filled, then the RNG was not
\* ready, and the call returned Err(EAGAIN).
C26_Witness ==
    /\ ReturnedNotReady
    /\ Flags = 3
    /\ rng = <<TRUE, FALSE>>
    /\ collected = <<GuestErr(EAGAIN)>>
    /\ user[1] # calls[1].mem

\* Every byte of the buffer holds the byte of a word the RNG gave for its
\* chunk, the words in the order of the chunks.
FilledByRng ==
    /\ Len(user[1]) = Len(calls[1].mem)
    /\ \A j \in 1..Len(user[1]) : \E t \in ReadySteps : HoldsWord(j, t)
    /\ \A j \in 1..Len(user[1]) : \A t \in ReadySteps :
           HoldsWord(j, t) => Cardinality({u \in ReadySteps : u <= t}) = (j - 1) \div 8 + 1

\* A call without flags that has returned has filled the buffer, and so has
\* a call with known flags that found the RNG ready at every step.
GetrandomFilled ==
    (/\ StubReturned("Getrandom")
     /\ \/ Flags = 0
        \/ Flags \in 1..3 /\ \A t \in 1..Len(rng) : rng[t]) =>
        /\ collected = <<GuestOk(Len(calls[1].mem))>>
        /\ FilledByRng

\* The call without flags is in its loop.
GetrandomWaiting == pc = "rng" /\ Flags = 0

\* The call without flags has returned with the whole buffer filled.
GetrandomDone ==
    /\ StubReturned("Getrandom")
    /\ Flags = 0
    /\ collected = <<GuestOk(Len(calls[1].mem))>>
    /\ FilledByRng

\* C27: without flags getrandom asks the RNG again for a chunk until it is
\* ready; the RNG being ready again and again, the call terminates with
\* Ok(buf.len()) and every byte of the buffer, a short last chunk included,
\* written from what the RNG gave.  With the RNG ready at every step the same
\* holds for every combination of the known flags.
C27_GetrandomTerminates == []GetrandomFilled /\ (GetrandomWaiting ~> GetrandomDone)

\* getrandom() on 12 bytes: the RNG was not ready twice, the call waited and
\* filled the chunk of eight and the chunk of four bytes.
C27_Witness ==
    /\ GetrandomDone
    /\ calls[1].mem = Dirty(12)
    /\ rng = <<FALSE, TRUE, FALSE, TRUE>>
    /\ user[1] = <<33, 34, 35, 36, 37, 38, 39, 40, 65, 66, 67, 68>>

\* C28: flags with a bit other than NONBLOCK and RANDOM make getrandom
\* return Err(EINVAL) before the RNG is asked and before a byte is written.
C28_GetrandomUnknownFlags ==
    (calls # <<>> /\ calls[1].name = "Getrandom" /\ Flags \notin 0..3) =>
        /\ pc \in {"called", "returned", "idle"}
        /\ rng = <<>>
        /\ user[1] = calls[1].mem
        /\ pc # "called" => collected = <<GuestErr(22)>>

\* getrandom with RANDOM and the bit above it on a buffer the caller had
\* written: Err(EINVAL), the buffer as before.
C28_Witness ==
    /\ StubReturned("Getrandom")
    /\ Flags = 6
    /\ calls[1].mem = Dirty(8)
    /\ user[1] = Dirty(8)
    /\ collected = <<GuestErr(EINVAL)>>

\* C29: readlink knows one path: for every pathname other than
\* "/proc/self/exe" it returns ENOENT whatever the size of the buffer; for
\* that path and a buffer below 6 bytes it returns EINVAL; else the first 6
\* bytes of the buffer become "/init\0", the rest stays, and it returns Ok(6).
\* On either error the buffer is as it was.
C29_ReadlinkStub ==
    StubReturned("Readlink") =>
        \A path \in {calls[1].args[1]} : \A buf \in {calls[1].mem} :
            IF path # <<47, 112, 114, 111, 99, 47, 115, 101, 108, 102, 47, 101, 120, 101>>
            THEN collected = <<GuestErr(2)>> /\ user[1] = buf
            ELSE IF Len(buf) < 6
            THEN collected = <<GuestErr(22)>> /\ user[1] = buf
            ELSE /\ collected = <<GuestOk(6)>>
                 /\ Len(user[1]) = Len(buf)
                 /\ SubSeq(user[1], 1, 6) = <<47, 105, 110, 105, 116, 0>>
                 /\ \A j \in 7..Len(buf) : user[1][j] = buf[j]

\* readlink("/proc/self/exe") into nine bytes the caller had written.
C29_Witness ==
    /\ StubReturned("Readlink")
    /\ calls[1].args[1] = ProcSelfExe
    /\ calls[1].mem = Dirty(9)
    /\ collected = <<GuestOk(6)>>
    /\ user[1] = DEST \o Dirty(3)

\* A string in a field of utsname: its bytes, then zeros up to 65 bytes.
Padded(str) == [i \in 1..65 |-> IF i <= Len(str) THEN str[i] ELSE 0]

\* C30: the identity stubs return the same values on every call, whatever
\* was called before and whatever the host is and does: getpid 1000, getuid
\* and geteuid 1000, getgid and getegid 1000, set_tid_address 1,
\* rt_sigprocmask and sigaltstack Ok(()), and uname Ok(()) with sysname
\* "Linux", release "5.6.0", machine "x86_64", nodename
\* "localhost.localdomain" and version "#1", each padded with zeros to 65 bytes.
C30_IdentityStubs ==
    /\ \A name \in {"Getpid", "Getuid", "Geteuid", "Getgid", "Getegid"} :
           StubReturned(name) => collected = <<1000>>
    /\ StubReturned("SetTidAddress") => collected = <<1>>
    /\ \A name \in {"RtSigprocmask", "Sigaltstack"} :
           StubReturned(name) => collected = <<GuestOk(0)>>
    /\ StubReturned("Uname") =>
           /\ collected = <<GuestOk(0)>>
           /\ user[1].sysname = Padded(<<76, 105, 110, 117, 120>>)
           /\ user[1].release = Padded(<<53, 46, 54, 46, 48>>)
           /\ user[1].machine = Padded(<<120, 56, 54, 95, 54, 52>>)
           /\ user[1].nodename =
                  Padded(<<108, 111, 99, 97, 108, 104, 111, 115, 116, 46,
                           108, 111, 99, 97, 108, 100, 111, 109, 97, 105, 110>>)
           /\ user[1].version = Padded(<<35, 49>>)

\* uname, called second, on a utsname the caller had written, the host not
\* serving sallies and its OS not fresh.
C30_Witness ==
    /\ StubReturned("Uname")
    /\ idx = 2
    /\ calls[1].mem = UtsnameOf(Dirty(65))
    /\ ~host_runs
    /\ kernel # KernelInit
    /\ collected = <<GuestOk(0)>>
    /\ user[1].sysname = Padded(<<76, 105, 110, 117, 120>>)

\* The names of the stubs.
StubNames ==
    {"Fstat", "Getrandom", "Readlink", "Uname", "Getpid", "Getuid", "Geteuid", "Getgid",
     "Getegid", "SetTidAddress", "RtSigprocmask", "Sigaltstack"}

\* Whatever stubs were called, the block is the one the Handler was made
\* with, no sally was triggered and the host OS saw no call.
NoTraceOfStubs ==
    /\ block \in {BlockInit, Zeros(BlockBytes)}
    /\ sallies = 0
    /\ klog = <<>>
    /\ staged = <<>>
    /\ committed = <<>>

\* A step of a stub changes no byte of the block and triggers no sally.
StubStepInGuest ==
    (calls' # <<>> /\ calls'[1].name \in StubNames) =>
        /\ \A i \in 1..Len(block) : block'[i] = block[i]
        /\ Len(block') = Len(block)
        /\ sallies' = sallies
        /\ klog' = klog

---------------------------------------------------------------------------
\* Properties of the host's walk over the block (SpecBlock), continued.

\* The kind word and the size word of the header at byte offset pos.
KindWordAt(blk, pos) == read_word(blk, pos + 8)
SizeWordAt(blk, pos) == read_word(blk, pos)

RECURSIVE SyscallsBeforeEnd(_, _)
\* The Syscall items from byte offset pos up to the first End header, or up
\* to the place the walk fails at.
SyscallsBeforeEnd(blk, pos) ==
    IF pos + 16 > Len(blk) THEN 0
    ELSE IF KindWordAt(blk, pos) \notin {1, 2} THEN 0
    ELSE IF SizeWordAt(blk, pos) > Len(blk) - pos - 16 \/ SizeWordAt(blk, pos) < 72 THEN 0
    ELSE (IF KindWordAt(blk, pos) = 1 THEN 1 ELSE 0)
             + SyscallsBeforeEnd(blk, pos + 16 + SizeWordAt(blk, pos))

\* The host OS was called once for each Syscall item the walk has passed, and
\* what is left to run ends at the first End header.
RunUpToEnd ==
    pc \in {"host", "collect"} =>
        Len(klog) + SyscallsBeforeEnd(block, host_pos) = SyscallsBeforeEnd(block, 0)

\* The host at an End header.
AtEnd == pc = "host" /\ host_pos + 16 <= Len(block) /\ KindWordAt(block, host_pos) = 0

\* At an End header the host does nothing and the sally returns.
EndIsNoOp ==
    AtEnd =>
        /\ block' = block
        /\ klog' = klog
        /\ kernel' = kernel
        /\ host_pos' = host_pos
        /\ pc' = "collect"

\* C33: the End item terminates the sequence on the host: the dispatcher does
\* nothing for End, yields no item for it and never interprets or executes
\* what the guest placed behind the first End header, so no Syscall or
\* Gdbcall item behind it is run.
C33_EndTerminates == []RunUpToEnd /\ [][EndIsNoOp]_vars

\* The block begins with an End header and has a whole sync item behind it:
\* the sally has returned and the host OS was not called.
C33_Witness ==
    /\ pc = "collect"
    /\ host_pos = 0
    /\ KindWordAt(block, 0) = KindEnd
    /\ SizeWordAt(block, 0) = SyscallSize
    /\ KindWordAt(block, HeaderSize + SyscallSize) = KindSyscall
    /\ read_word(block, 2 * HeaderSize + SyscallSize) = SYS_sync
    /\ klog = <<>>

---------------------------------------------------------------------------
\* Properties of SevSecret (SpecSecret).

\* The width of the length field behind a prefix of minor 24..27.
FieldWidth(minor) == 2 ^ (minor - 24)

\* 1 + width + length as a number, or one above the maximum if it is larger
\* than the maximum.
SecretLen(bytes) ==
    LET minor == bytes[1] % 32
        w == FieldWidth(minor)
    IN  IF minor <= 23 THEN 1 + minor
        ELSE IF w = 1 /\ 2 + bytes[2] <= SEV_SECRET_MAX_SIZE THEN 2 + bytes[2]
        ELSE IF /\ w > 1
                /\ \A i \in 2..(w - 1) : bytes[i] = 0
                /\ 1 + w + 256 * bytes[w] + bytes[w + 1] <= SEV_SECRET_MAX_SIZE
             THEN 1 + w + 256 * bytes[w] + bytes[w + 1]
        ELSE SEV_SECRET_MAX_SIZE + 1

\* What try_len is to return for the blob.
ExpectedLen(bytes) ==
    IF bytes[1] \div 32 = 2 /\ bytes[1] % 32 <= 27 /\ SecretLen(bytes) <= SEV_SECRET_MAX_SIZE
    THEN Some(SecretLen(bytes))
    ELSE None

\* C32: try_len returns Some(n) exactly when the first byte has major type 2
\* and a minor of 0..27 and n = 1 + the width of the length field + the
\* length, the sum taken in the integers, is at most 16384; it returns None
\* for the minors 28..31 and for every other major type; try_as_slice returns
\* a slice of exactly n bytes.
C32_SecretLength ==
    hpc \in {"len", "slice"} => result = ExpectedLen(data)


---------------------------------------------------------------------------
\* Properties of the socket address pair (SpecHost).

\* The argv slot of the addrlen offset.
AddrlenSlot == IF syscall.num = SYS_recvfrom THEN 6 ELSE 3

\* What the kernel would get with the pair spliced into the guest's argv.
WithPair(addr, addrlen) ==
    CASE syscall.num = SYS_recvfrom ->
            <<syscall.argv[1], syscall.argv[2], syscall.argv[3], syscall.argv[4],
              addr, addrlen>>
      [] syscall.num = SYS_accept4 ->
            <<syscall.argv[1], addr, addrlen, syscall.argv[4]>>
      [] OTHER -> <<syscall.argv[1], addr, addrlen>>

\* The buffer of recvfrom lies in the tail (the other calls have none).
BufferFits ==
    syscall.num = SYS_recvfrom => syscall.argv[2] + syscall.argv[3] <= Len(data)

\* The addrlen word lies in the tail and is aligned.
AddrlenWordValid ==
    /\ syscall.argv[AddrlenSlot] + 4 <= Len(data)
    /\ syscall.argv[AddrlenSlot] % 4 = 0

\* The socklen_t bytes at the address offset lie in the tail, aligned for any
\* socket address.
AddrRangeValid ==
    /\ AddrlenWordValid
    /\ syscall.argv[AddrSlot(syscall.num)]
          + read_socklen(data, syscall.argv[AddrlenSlot]) <= Len(data)
    /\ syscall.argv[AddrSlot(syscall.num)] % AlignOf("sockaddr_storage") = 0

\* C35: accept, accept4 and recvfrom with a NULL address offset hand the kernel
\* two null pointers whatever stands in the addrlen slot, which is neither
\* validated nor read; with another address offset, and in getsockname always,
\* the kernel is entered only if both the addrlen word and the address range
\* are valid, and the item is rejected with EFAULT otherwise.
C35_NullAddressPair ==
    (hpc = "done" /\ BufferFits
        /\ syscall.num \in {SYS_accept, SYS_accept4, SYS_recvfrom, SYS_getsockname}) =>
        IF syscall.num # SYS_getsockname /\ syscall.argv[AddrSlot(syscall.num)] = NULL
        THEN /\ result.tag = "Ok"
             /\ result.kcall.argv = WithPair(NullPtr, NullPtr)
             /\ \A r \in result.kcall.mem : r.off = syscall.argv[2] /\ r.el = 1
        ELSE IF AddrRangeValid
        THEN /\ result.tag = "Ok"
             /\ result.kcall.argv
                   = WithPair(syscall.argv[AddrSlot(syscall.num)], syscall.argv[AddrlenSlot])
        ELSE result = Err(EFAULT)

\* An accept with a NULL address offset and an addrlen offset far outside the
\* tail has entered the kernel.
C35_Witness ==
    /\ hpc = "done"
    /\ syscall.num = SYS_accept
    /\ syscall.argv[2] = NULL
    /\ syscall.argv[3] > Len(data)
    /\ result.tag = "Ok"
    /\ result.kcall.argv = <<syscall.argv[1], NullPtr, NullPtr>>

\* The optlen bytes at the optval offset lie in the tail, word-aligned.
OptvalValid ==
    /\ syscall.argv[4] + syscall.argv[5] <= Len(data)
    /\ syscall.argv[4] % 8 = 0

\* C39: setsockopt with a NULL optval offset hands the kernel a null optval
\* and optlen 0 whatever optlen the guest supplied; with another offset it
\* hands on the guest's optlen only if the optlen bytes at the offset lie in
\* the data tail and the pointer is word-aligned, and rejects with EFAULT
\* otherwise.
C39_SetsockoptNull ==
    (hpc = "done" /\ syscall.num = SYS_setsockopt) =>
        IF syscall.argv[4] = NULL
        THEN /\ result.tag = "Ok"
             /\ result.kcall.argv
                   = <<syscall.argv[1], syscall.argv[2], syscall.argv[3], NullPtr, 0>>
             /\ result.kcall.mem = {}
        ELSE IF OptvalValid
        THEN /\ result.tag = "Ok"
             /\ result.kcall.argv
                   = <<syscall.argv[1], syscall.argv[2], syscall.argv[3],
                       syscall.argv[4], syscall.argv[5]>>
        ELSE result = Err(EFAULT)

\* A setsockopt with a NULL optval offset and an optlen larger than the tail
\* has entered the kernel with optlen 0.
C39_Witness ==
    /\ hpc = "done"
    /\ syscall.num = SYS_setsockopt
    /\ syscall.argv[4] = NULL
    /\ syscall.argv[5] > Len(data)
    /\ result.tag = "Ok"
    /\ result.kcall.argv[5] = 0

---------------------------------------------------------------------------
\* Properties of the dispatcher on an item in a block (SpecServe).

\* The dispatcher has finished the first item and the host has not gone on.
ItemServed == hpc = "done" /\ host_pos = HeaderSize + SyscallSize + Len(data) /\ pc = "host"

\* ret[0] of the first item as it stands in the block.
Ret0InBlock == read_word(block, item_at(ItemBlock(syscall, data), 0).ret_abs)

\* Two ranges of the item are checked, and the first of them passes.
SecondRangeFails ==
    \/ /\ syscall.num = SYS_recvfrom
       /\ deref(data, syscall.argv[2], syscall.argv[3], "u8").tag = "Ok"
       /\ sockaddr_output_or_null(data, syscall.argv[5], syscall.argv[6]).tag = "Err"
    \/ /\ syscall.num = SYS_epoll_pwait
       /\ deref_aligned(data, syscall.argv[2], syscall.argv[3], "epoll_event").tag = "Ok"
       /\ deref_aligned(data, syscall.argv[5], 1, "sigset_t").tag = "Err"

\* C34: when the dispatcher returns an error for an item (EFAULT or ENOSYS),
\* the kernel was not entered for it and the block, with the item's ret words
\* and data tail, is as the guest committed it; when it returns Ok the kernel
\* was entered exactly once, and a failure of the kernel call stands as a
\* negated errno in ret[0] of an item the dispatcher accepted.
C34_ErrorMeansNoKernel ==
    ItemServed =>
        /\ result.tag = "Err" =>
              /\ result.errno \in {EFAULT, ENOSYS}
              /\ klog = <<>>
              /\ block = ItemBlock(syscall, data)
        /\ result.tag = "Ok" =>
              /\ klog = <<result.kcall>>
              /\ result.kcall # NoCall
              /\ Ret0InBlock \in KernelRets \cup {NegErrno(ENOSYS)}
              /\ Ret0InBlock = NegErrno(ENOSYS) => kernel_exits(result.kcall)
        /\ Ret0InBlock = NegErrno(EBADF) => result.tag = "Ok"

C34_Witness ==
    /\ ItemServed
    /\ SecondRangeFails
    /\ result = Err(EFAULT)
    /\ klog = <<>>


\* Byte p of the block (from 1) lies in ret[0] of the item, if its number is
\* routed, or in ret[0] of the sync item behind it.
InRet0(p) ==
    \/ /\ syscall.num \in Routed
       /\ p - 1 - (HeaderSize + 56) \in 0..7
    \/ p - 1 - (HeaderSize + SyscallSize + Len(data) + HeaderSize + 56) \in 0..7

\* Byte p of the block lies in the item's data tail, inside a range that the
\* dispatcher accepted and handed to the kernel.
InValidatedRange(p) ==
    /\ result.tag = "Ok"
    /\ p - 1 - (HeaderSize + SyscallSize) \in 0..(Len(data) - 1)
    /\ \E r \in result.kcall.mem :
          /\ r.off <= p - 1 - (HeaderSize + SyscallSize)
          /\ p - 1 - (HeaderSize + SyscallSize) < r.off + r.count * r.el

\* C36: whatever the host side has done to the block since the guest
\* committed it, the bytes that differ lie in ret[0] of a routed item or
\* inside a validated range of the data tail; the headers, the num word and
\* the argv words are as committed, up to the moment the guest collects.
C36_HostWritesOnlyResults ==
    \E committed_block \in {ItemBlock(syscall, data)} :
        /\ Len(block) = Len(committed_block)
        /\ \A p \in 1..Len(block) :
              block[p] # committed_block[p] => InRet0(p) \/ InValidatedRange(p)
        /\ item_at(block, 0).payload.num = syscall.num
        /\ item_at(block, 0).payload.argv = syscall.argv
        /\ item_at(block, 0).size = SyscallSize + Len(data)

\* The sally is over on an epoll_wait whose maxevents is beyond the wrap of
\* the size computation: the kernel has stored the return value and an event
\* byte, and the guest is about to collect.
C36_Witness ==
    /\ pc = "collect"
    /\ syscall.num = SYS_epoll_wait
    /\ syscall.argv[3] > WordMod \div 16
    /\ result.tag = "Ok"
    /\ Ret0InBlock = 5
    /\ \E p \in 1..Len(data) : block[HeaderSize + SyscallSize + p] = KernelByte


---------------------------------------------------------------------------
\* Properties of staging one call (SpecStage).

\* The references of the payload a staged call holds.
PayloadRefs(st) ==
    CASE st.kind \in {"Output", "OutputSlice", "InputSlice"} -> {st.ref}
      [] st.kind = "Recvfrom" -> {st.ref, st.addr, st.addrlen}
      [] OTHER -> {}

\* The staged item lies in consecutive words: the header, the num word, six
\* argv words, two ret words, and every payload reference behind them inside
\* the staged size; the allocator stands behind the item.
StagedLayout ==
    staged # <<>> =>
        /\ staged[1].header_ref.size = HeaderSize
        /\ staged[1].num_ref.abs = staged[1].header_ref.abs + HeaderSize
        /\ staged[1].num_ref.size = 8
        /\ staged[1].argv.ref.abs = staged[1].num_ref.abs + 8
        /\ staged[1].argv.ref.size = 6 * 8
        /\ staged[1].ret_ref.abs = staged[1].argv.ref.abs + 6 * 8
        /\ staged[1].ret_ref.size = 2 * 8
        /\ \A ref \in PayloadRefs(staged[1].staged) :
              /\ ref.abs >= staged[1].ret_ref.abs + 2 * 8
              /\ ref.abs + ref.size
                    <= staged[1].ret_ref.abs + 2 * 8 + staged[1].staged_size
        /\ alloc.offset = staged[1].ret_ref.abs + 2 * 8 + staged[1].staged_size

\* The committed item reads back, from the place of its header, as
\* Header{size, kind}, num, argv[6], ret[2].
CommittedLayout ==
    pc \in {"end", "sally"} =>
        /\ read_words(block, staged[1].header_ref.abs, 2)
              = <<SyscallSize + staged[1].staged_size, KindSyscall>>
        /\ read_words(block, staged[1].header_ref.abs + HeaderSize, 9)
              = <<calls[1].num>> \o staged[1].argv.val \o <<NegErrno(ENOSYS), 0>>

\* The step that stages the call takes the header where the allocator stood,
\* and fails, leaving nothing staged, whenever the room left is short of the
\* header, the num word, the argv words and the ret words, whether or not
\* the call's own stage would have found room.
StageReserves ==
    pc = "stage" =>
        /\ staged' # <<>> => staged'[1].header_ref.abs = alloc.offset
        /\ alloc.cap - alloc.offset < HeaderSize + SyscallSize =>
              pc' = "failed" /\ staged' = <<>> /\ alloc' = alloc
        /\ (pc' = "failed" /\ alloc.cap - alloc.offset >= HeaderSize + SyscallSize) =>
              call_stage(calls[1], section_alloc([alloc EXCEPT
                            !.offset = @ + HeaderSize + SyscallSize])).tag = "Err"

\* C38: staging reserves the Header, the num word, the six argv words and the
\* two ret words in this order before any payload, so that the committed item
\* is laid out in consecutive words as Header{size, kind}, num, argv[6],
\* ret[2], payload; if one of the four reservations fails, stage returns the
\* error and the call's own stage is not run.
C38_StageOrder == [](StagedLayout /\ CommittedLayout) /\ [][StageReserves]_vars

\* A call without payload has failed to stage with room for the header, the
\* num word and the argv words but not for the ret words.
C38_Witness ==
    /\ pc = "failed"
    /\ calls[1].name = "Sync"
    /\ alloc.cap - alloc.offset = HeaderSize + SyscallSize - 8
    /\ staged = <<>>


---------------------------------------------------------------------------
\* Properties of the phases of a sally (Spec).

\* A step of the host side: it moves along the block, enters the kernel or
\* returns from the sally.
HostSideStep == host_pos' # host_pos \/ klog' # klog \/ kernel' # kernel

\* A step of the guest side: it stages, commits or collects.
GuestSideStep ==
    \/ alloc' # alloc
    \/ staged' # staged
    \/ committed' # committed
    \/ collected' # collected
    \/ user' # user

\* While the guest is collecting, a host that serves the sally has gone through
\* every item: it stands at the End header behind the last of them, and
\* nothing is collected earlier.
HostFinishedFirst ==
    /\ (pc \in {"collect", "done"} /\ host_runs) =>
          /\ host_pos = alloc.offset
          /\ item_at(block, host_pos).tag = "End"
    /\ collected # <<>> => pc \in {"collect", "done"}
    /\ pc = "host" => Len(committed) = Len(calls) /\ collected = <<>>

\* No step belongs to both sides; the block changes only in the guest's commit
\* and in the host's sally; the host steps only during the sally and the guest
\* only outside it; once the host has begun, the next step is the host's
\* until the sally returns.
PhaseExclusive ==
    /\ ~(HostSideStep /\ GuestSideStep)
    /\ block' # block => pc \in {"commit", "end", "host"}
    /\ (HostSideStep /\ pc # "sally") => pc = "host"
    /\ GuestSideStep => pc \in {"stage", "commit", "collect"}
    /\ pc = "host" =>
          /\ pc' \in {"host", "collect", "exited"}
          /\ UNCHANGED <<alloc, staged, committed, collected, user>>
    /\ pc \in {"stage", "commit", "end", "collect"} =>
          UNCHANGED <<host_pos, klog, kernel>>

\* C37: access to the block is phase-exclusive: the guest touches it only
\* while staging, committing and collecting, the host only while the sally is
\* in progress, the two never interleave, and the guest observes results only
\* after the host has finished all items.
C37_PhaseExclusive == []HostFinishedFirst /\ [][PhaseExclusive]_vars

\* A batch of two or more calls has been served by the host and collected.
C37_Witness ==
    /\ pc = "done"
    /\ host_runs
    /\ Len(klog) >= 2
    /\ Len(collected) >= 2

====
